---- MODULE Spec2Model ----
(***************************************************************************)
(* SmartSocket broker: namespaces, rooms, routing, broadcasts, the rate    *)
(* limiter and the acknowledgement correlator, modelled from the code      *)
(* excerpts of the documentation repository (server.js and the library     *)
(* excerpts quoted in the *.md files).                                     *)
(***************************************************************************)
EXTENDS Integers, Sequences, FiniteSets, TLC

\* ---------------------------------------------------------------- bounds
MaxSockets == 3
MaxRooms == 1
MaxConnections == 2
MaxTime == 5
RateWindow == 2
RateMaxRequests == 2
MaxAcks == 3
MaxAckCalls == 2
AckIdSpace == 4
MaxEmits == 5
MaxMiddleware == 3
MaxReconnectAttempts == 3
MaxLosses == 3
MaxReconnectDelay == 6
MaxDelay == 4
MaxQueueSize == 2
MaxMessages == 4
MaxQueueTime == 3
QueueTtl == 1
MaxHeartbeats == 6
MaxIdleTime == 8
ConnectionTimeout == 2
ProbeTimeout == 1
MaxHandlerEmits == 3
MaxThrows == 1

SocketIds == 1..MaxSockets
\* Room ids are arbitrary strings chosen by clients (data.quizCode); the ids
\* used here coincide with the id strings of the first sockets.
RoomIds == 1..MaxRooms
\* a missing field of a payload (falsy: if (!quizCode || !playerId) return)
NoCode == 0
\* the same value where an operation names no socket
NoSocket == NoCode

\* server.namespace(path): the namespaces the application registers
Namespaces == {"/", "/quiz", "/chat"}
RootNs == "/"

\* URLs of upgrade requests, as token sequences: path [ "?" query ]
Urls ==
  { <<"/">>, <<"/quiz">>, <<"/chat">>, <<"/nope">>,
    <<"/quiz", "?", "namespace=/chat">>, <<"/", "?", "namespace=/quiz">> }

\* payloads of inbound frames: the quizCode and playerId fields (0 = missing)
FrameData ==
  { [quizCode |-> c, playerId |-> 1] : c \in RoomIds \cup {NoCode} }
    \cup { [quizCode |-> 1, playerId |-> 0] }

\* events handled by the quiz server template
AutoBroadcastEvents == {"player-joined"}
JoinEvents == {"join-quiz"}
QuizEvents == JoinEvents \cup AutoBroadcastEvents
\* request answered to the requester only
PlayersEvents == {"get-players"}

VARIABLES
  nextSocketId,   \* allocator of socket ids (unique for the process lifetime)
  sockets,        \* server.sockets
  sockNamespace,  \* socket.namespace
  sockRooms,      \* socket.rooms
  nsSockets,      \* namespace membership sets (namespace.addSocket)
  nsRooms,        \* namespace.rooms : Map room -> Set of sockets
  srvRooms,       \* server.rooms    : Map room -> Set of sockets
  emitter,        \* the object returned by the last namespace.to(room)
  nsHandlers,     \* namespace.handlers : events with a handler, per namespace
  sockHandlers,   \* socket.handlers    : events with a handler, per socket
  srvHandlers,    \* server.handlers    : events with a server-level handler
  disconnectedFired, \* per socket: 'disconnected' events fired on its namespace
  last            \* what the last operation did (frames delivered per socket)

brokerVars == <<nextSocketId, sockets, sockNamespace, sockRooms, nsSockets,
                nsRooms, srvRooms, emitter, nsHandlers, sockHandlers,
                srvHandlers, disconnectedFired, last>>

handlerVars == <<nsHandlers, sockHandlers, srvHandlers>>

\* rate limiter (class RateLimiter)
VARIABLES
  rlNow,          \* Date.now()
  rlRequests,     \* this.requests : timestamps of the admitted requests kept
  rlAdmitted,     \* history: how many requests were admitted at each instant
  rlAllowed       \* what the last isAllowed() returned

rateVars == <<rlNow, rlRequests, rlAdmitted, rlAllowed>>

\* acknowledgement correlator of one sender and its peer
VARIABLES
  ackNextId,      \* the sender's ack-id counter
  ackTable,       \* ids with an armed timer in the sender's outstanding table
  ackRequests,    \* frames with ACK_REQUESTED held by the receiver's handlers
  ackInFlight,    \* ACK frames on their way back to the sender
  ackResponses,   \* per id: callback invocations with the response
  ackTimeouts,    \* per id: callback invocations with the timeout error
  senderOpen,     \* the sender has not been closed
  receiverOpen    \* the receiving peer has not been closed

ackVars == <<ackNextId, ackTable, ackRequests, ackInFlight, ackResponses,
             ackTimeouts, senderOpen, receiverOpen>>

\* ack-id allocation of one sender (an id counter of scaled width)
VARIABLES
  idCounter,      \* the sender's id counter, modulo AckIdSpace
  idEmits,        \* emits made with an ack callback so far
  idOutstanding,  \* outstanding ack records: [id, emit]
  idAcks,         \* requests whose ACK frame has not reached the sender yet
  idLastAck       \* the last ACK frame that arrived and the record it completed

idVars == <<idCounter, idEmits, idOutstanding, idAcks, idLastAck>>

\* middleware chain of the server and the frames of one socket
VARIABLES
  mwChain,          \* middlewares in the order server.use registered them
  mwAuthenticated,  \* socket.data.authenticated
  mwRequests,       \* socket.rateLimiter.requests
  mwLast            \* what the last inbound frame of the socket caused

mwVars == <<mwChain, mwAuthenticated, mwRequests, mwLast>>

\* reconnection of one client
VARIABLES
  rcConnected,    \* the transport is open
  rcTimer,        \* attempt whose setTimeout is pending, or NoAttempt
  rcDelay,        \* time left until the pending timer expires
  rcConnecting,   \* attempt whose connect() is in progress, or NoAttempt
  rcAttempts,     \* per transport loss: connect() calls made after it
  rcFailed,       \* connect() calls that failed since the transport was lost
  rcEmitted,      \* events emitted locally since the transport was lost
  rcLosses,       \* transport losses so far
  rcReconnectDelay, \* this.reconnectDelay, in whole time units
  rcWaits         \* delays of the timers set since the transport was lost

rcVars == <<rcConnected, rcTimer, rcDelay, rcConnecting, rcAttempts,
            rcFailed, rcEmitted, rcLosses, rcReconnectDelay, rcWaits>>

\* offline queue of one client (class MessageQueue)
VARIABLES
  mqListeners,    \* 'connected' listeners of the client, in registration order
  mqOpen,         \* the client is connected
  mqNow,          \* Date.now()
  mqQueue,        \* this.queue : [message, timestamp]
  mqNextMessage,  \* number of the next emit
  mqOffline,      \* emits made since the transport was lost, in order
  mqSent,         \* frames written to the transport: [message, age]
  mqAcked,        \* emits made with an ack callback
  mqTimers,       \* emits whose ack timer is running
  mqTimedOut      \* emits whose callback got the timeout error

mqVars == <<mqListeners, mqOpen, mqNow, mqQueue, mqNextMessage, mqOffline,
            mqSent, mqAcked, mqTimers, mqTimedOut>>

\* heartbeat of one client
VARIABLES
  hbSent,         \* HEARTBEAT frames sent so far
  hbPending,      \* this.heartbeatTimeout is set
  hbMissed,       \* this.heartbeatMissed
  hbHistory,      \* per heartbeat: "ack" or "miss"
  hbForced        \* heartbeats whose miss forced a reconnect

hbVars == <<hbSent, hbPending, hbMissed, hbHistory, hbForced>>

\* idle timeout of one socket on the server
VARIABLES
  ctNow,          \* the server's clock
  ctLastActivity, \* time of the socket's last activity
  ctProbe,        \* time the pending HEARTBEAT probe was sent, or NoProbe
  ctUnanswered,   \* probes in a row that got no HEARTBEAT_ACK in time
  ctClosed        \* the socket was dropped for idleness

ctVars == <<ctNow, ctLastActivity, ctProbe, ctUnanswered, ctClosed>>

\* outbound path of server.to(room).emit towards one receiver
VARIABLES
  plEmits,        \* emits of one handler invocation: [big, stage]
  plArrived       \* the emits in the order socket.ws.send wrote them

plVars == <<plEmits, plArrived>>

\* handler exceptions
VARIABLES
  thThrew         \* sockets one of whose frames made a handler throw

thVars == <<thThrew>>

\* connection URL of one client
VARIABLES
  urlBase,        \* this.url, as tokens: host [ "/" ] [ "?" query ]
  urlNamespace,   \* this.namespace
  urlConnect      \* connectUrl, or <<>> before it is built

urlVars == <<urlBase, urlNamespace, urlConnect>>

\* binary codec: one frame encoded and decoded
VARIABLES
  cdFrame,        \* the frame handed to encode, or NoWire before the first
  cdWire,         \* the bytes encode produced
  cdDecoded       \* what decode returned for cdWire, or NoWire before decode

cdVars == <<cdFrame, cdWire, cdDecoded>>

\* the two-browser test of the player-joined relay
VARIABLES
  pjEmitted,      \* <<socket, quizCode>>: the client emitted 'player-joined'
  pjReceived      \* <<receiver, sender, quizCode>>: the frame was delivered

pjVars == <<pjEmitted, pjReceived>>

\* one room broadcast: Namespace.to(room).emit(event, data)
VARIABLES
  foMembers,      \* roomSockets when emit runs
  foThrowing,     \* the members whose socket.emit throws
  foPending,      \* members forEach has not visited yet
  foReceived,     \* per socket, the frames it received
  foErrors,       \* errorCount
  foRaised,       \* the error left emit and reached the calling handler
  foDone          \* emit returned (or was left by the error)

foVars == <<foMembers, foThrowing, foPending, foReceived, foErrors, foRaised,
            foDone>>

\* connection pool
VARIABLES
  poolAvailable,  \* this.available.length
  poolInUse,      \* this.inUse.length
  poolGrowths,    \* calls of growPool so far
  poolLast        \* the last pool operation

poolVars == <<poolAvailable, poolInUse, poolGrowths, poolLast>>

\* client lifecycle: connect, disconnect, reconnect timers and heartbeat timers
VARIABLES
  clState,        \* "idle", "open", "lost" (transport lost) or "closed"
  clUserClosed,   \* the user called disconnect() and not connect() since
  clTimers,       \* per attempt, the pending setTimeout callbacks of reconnect
  clIntervals,    \* running heartbeat intervals
  clTimeouts,     \* pending heartbeat timeouts
  clLosses        \* transport losses so far

clVars == <<clState, clUserClosed, clTimers, clIntervals, clTimeouts, clLosses>>

\* corrected quiz server
VARIABLES
  quiz,           \* the server: sockets, socket.data, rooms, quizRooms, frames
  quizTwin        \* a second run, fed the same frames but for correctAnswer

quizVars == <<quiz, quizTwin>>

nonBrokerVars == <<rateVars, ackVars, idVars, mwVars, rcVars, mqVars, hbVars,
                   ctVars, plVars, thVars, urlVars, cdVars, pjVars, foVars,
                   poolVars, clVars, quizVars>>
nonRateVars == <<brokerVars, ackVars, idVars, mwVars, rcVars, mqVars, hbVars,
                 ctVars, plVars, thVars, urlVars, cdVars, pjVars, foVars,
                 poolVars, clVars, quizVars>>
nonAckVars == <<brokerVars, rateVars, idVars, mwVars, rcVars, mqVars, hbVars,
                ctVars, plVars, thVars, urlVars, cdVars, pjVars, foVars,
                poolVars, clVars, quizVars>>
nonIdVars == <<brokerVars, rateVars, ackVars, mwVars, rcVars, mqVars, hbVars,
               ctVars, plVars, thVars, urlVars, cdVars, pjVars, foVars,
               poolVars, clVars, quizVars>>
nonMwVars == <<brokerVars, ackVars, idVars, rcVars, mqVars, hbVars, ctVars,
               plVars, thVars, urlVars, cdVars, pjVars, foVars, poolVars,
               clVars, quizVars>>
nonRcVars == <<brokerVars, rateVars, ackVars, idVars, mwVars, mqVars, hbVars,
               ctVars, plVars, thVars, urlVars, cdVars, pjVars, foVars,
               poolVars, clVars, quizVars>>
nonMqVars == <<brokerVars, rateVars, ackVars, idVars, mwVars, rcVars, hbVars,
               ctVars, plVars, thVars, urlVars, cdVars, pjVars, foVars,
               poolVars, clVars, quizVars>>
nonHbVars == <<brokerVars, rateVars, ackVars, idVars, mwVars, rcVars, mqVars,
               ctVars, plVars, thVars, urlVars, cdVars, pjVars, foVars,
               poolVars, clVars, quizVars>>
nonCtVars == <<brokerVars, rateVars, ackVars, idVars, mwVars, rcVars, mqVars,
               hbVars, plVars, thVars, urlVars, cdVars, pjVars, foVars,
               poolVars, clVars, quizVars>>
nonPlVars == <<brokerVars, rateVars, ackVars, idVars, mwVars, rcVars, mqVars,
               hbVars, ctVars, thVars, urlVars, cdVars, pjVars, foVars,
               poolVars, clVars, quizVars>>
nonThVars == <<brokerVars, rateVars, ackVars, idVars, mwVars, rcVars, mqVars,
               hbVars, ctVars, plVars, urlVars, cdVars, pjVars, foVars,
               poolVars, clVars, quizVars>>
nonBrokerThVars == <<rateVars, ackVars, idVars, mwVars, rcVars, mqVars, hbVars,
                     ctVars, plVars, urlVars, cdVars, pjVars, foVars, poolVars,
                     clVars, quizVars>>
nonBrokerUrlVars == <<rateVars, ackVars, idVars, mwVars, rcVars, mqVars,
                      hbVars, ctVars, plVars, thVars, cdVars, pjVars, foVars,
                      poolVars, clVars, quizVars>>
nonCdVars == <<brokerVars, rateVars, ackVars, idVars, mwVars, rcVars, mqVars,
               hbVars, ctVars, plVars, thVars, urlVars, pjVars, foVars,
               poolVars, clVars, quizVars>>
nonBrokerPjVars == <<rateVars, ackVars, idVars, mwVars, rcVars, mqVars, hbVars,
                     ctVars, plVars, thVars, urlVars, cdVars, foVars, poolVars,
                     clVars, quizVars>>
nonFoVars == <<brokerVars, rateVars, ackVars, idVars, mwVars, rcVars, mqVars,
               hbVars, ctVars, plVars, thVars, urlVars, cdVars, pjVars,
               poolVars, clVars, quizVars>>
nonPoolVars == <<brokerVars, rateVars, ackVars, idVars, mwVars, rcVars, mqVars,
                 hbVars, ctVars, plVars, thVars, urlVars, cdVars, pjVars,
                 foVars, clVars, quizVars>>
nonClVars == <<brokerVars, rateVars, ackVars, idVars, mwVars, rcVars, mqVars,
               hbVars, ctVars, plVars, thVars, urlVars, cdVars, pjVars, foVars,
               poolVars, quizVars>>
nonQuizVars == <<brokerVars, rateVars, ackVars, idVars, mwVars, rcVars, mqVars,
                 hbVars, ctVars, plVars, thVars, urlVars, cdVars, pjVars,
                 foVars, poolVars, clVars>>

vars == <<brokerVars, rateVars, ackVars, idVars, mwVars, rcVars, mqVars,
           hbVars, ctVars, plVars, thVars, urlVars, cdVars, pjVars, foVars,
           poolVars, clVars, quizVars>>

\* ------------------------------------------------------------ Map helpers
EmptyMap == [r \in {} |-> {}]

MapHas(m, r) == r \in DOMAIN m

MapGet(m, r) == IF r \in DOMAIN m THEN m[r] ELSE {}

MapAdd(m, r, s) ==
  [k \in (DOMAIN m) \cup {r} |-> IF k = r THEN MapGet(m, r) \cup {s} ELSE m[k]]

\* a removal that keeps the entry of a room whose last member left
MapRemoveKeepsEmpty(m, r, s) ==
  IF r \notin DOMAIN m THEN m ELSE [m EXCEPT ![r] = m[r] \ {s}]

MapRemove(m, r, s) ==
  IF r \notin DOMAIN m THEN m
  ELSE IF m[r] \ {s} = {} THEN [k \in (DOMAIN m) \ {r} |-> m[k]]
  ELSE [m EXCEPT ![r] = m[r] \ {s}]

NoRecv == [s \in SocketIds |-> 0]

\* one frame written to each socket of targets
SendTo(targets) == [s \in SocketIds |-> IF s \in targets THEN 1 ELSE 0]

RecvAdd(a, b) == [s \in SocketIds |-> a[s] + b[s]]

NoEmitter == [kind |-> "none", ns |-> RootNs, room |-> NoCode, snap |-> {}]

Idle(op) ==
  [op |-> op, ns |-> RootNs, room |-> NoCode, from |-> NoSocket,
   count |-> 0, snap |-> {}, recv |-> NoRecv, ev |-> "", ran |-> <<>>,
   ackId |-> 0, calls |-> 0, acks |-> 0]

\* an operation that writes no frame
Quiet == Idle("quiet")

\* the handler tables of the quiz server: quizNS.on(...) only
NsHandlerTable ==
  [n \in Namespaces |-> IF n = "/quiz" THEN QuizEvents \cup PlayersEvents ELSE {}]

\* ------------------------------------------------------------------ Init
BrokerInit ==
  /\ nextSocketId = 1
  /\ sockets = {}
  /\ sockNamespace = [s \in SocketIds |-> RootNs]
  /\ sockRooms = [s \in SocketIds |-> {}]
  /\ nsSockets = [n \in Namespaces |-> {}]
  /\ nsRooms = [n \in Namespaces |-> EmptyMap]
  /\ srvRooms = EmptyMap
  /\ emitter = NoEmitter
  /\ nsHandlers = NsHandlerTable
  /\ sockHandlers = [s \in SocketIds |-> {}]
  /\ srvHandlers = {}
  /\ disconnectedFired = [s \in SocketIds |-> 0]
  /\ last = Quiet

\* ------------------------------------------------------- upgrade (open)
\* url.split('?')[0]: the tokens before the first "?"
RECURSIVE SplitQuery(_)
SplitQuery(url) ==
  IF url = <<>> \/ Head(url) = "?" THEN <<>>
  ELSE <<Head(url)>> \o SplitQuery(Tail(url))

\* let namespacePath = '/'; if (url && url !== '/') namespacePath = url.split('?')[0]
NamespacePath(url) ==
  IF url # <<>> /\ url # <<"/">>
  THEN (IF SplitQuery(url) = <<>> THEN "" ELSE Head(SplitQuery(url)))
  ELSE "/"

\* if (namespacePath !== '/' && this.namespaceManager) { namespace = namespaces.get(path); if (namespace) ... }
AssignsNamespace(path) == path # "/" /\ path \in Namespaces

\* whether open() keeps the new socket in server.sockets: this.sockets.add(socket)
\* is unconditional (no maxConnections test, no namespace test)
OpenAccepts(path, count) == TRUE

\* open() that also keeps every socket in the root namespace
OpenNsSocketsAlsoRoot(s, path) ==
  IF AssignsNamespace(path)
  THEN [nsSockets EXCEPT ![path] = @ \cup {s}, ![RootNs] = @ \cup {s}]
  ELSE nsSockets

\* namespace.addSocket(socket)
OpenNsSockets(s, path) ==
  IF AssignsNamespace(path) THEN [nsSockets EXCEPT ![path] = @ \cup {s}]
  ELSE nsSockets

\* socket.namespace = namespacePath
OpenSockNamespace(s, path) ==
  IF AssignsNamespace(path) THEN [sockNamespace EXCEPT ![s] = path]
  ELSE sockNamespace

Open(url) ==
  /\ nextSocketId <= MaxSockets
  /\ LET s == nextSocketId
         path == NamespacePath(url)
     IN /\ nextSocketId' = s + 1
        /\ sockets' = IF OpenAccepts(path, Cardinality(sockets))
                      THEN sockets \cup {s} ELSE sockets
        /\ nsSockets' = OpenNsSockets(s, path)
        /\ sockNamespace' = OpenSockNamespace(s, path)
        /\ last' = [Idle("open") EXCEPT !.ns = path, !.from = s]
  /\ UNCHANGED <<sockRooms, nsRooms, srvRooms, emitter, handlerVars>>
  /\ UNCHANGED disconnectedFired
  /\ UNCHANGED nonBrokerVars

\* ------------------------------------------------- client connection URL
\* base URLs: with or without a trailing slash, with or without a query
BaseUrls ==
  { <<h>> \o slash \o query :
      h \in {"ws://host:8080", "wss://quiz.example"},
      slash \in {<<>>, <<"/">>},
      query \in {<<>>, <<"?", "token=abc">>} }

\* the namespaces a client asks for
ClientNamespaces == Namespaces \ {RootNs}

UrlInit ==
  /\ urlBase = <<>>
  /\ urlNamespace = RootNs
  /\ urlConnect = <<>>

\* connectUrl.endsWith('/')
EndsWithSlash(url) == url # <<>> /\ url[Len(url)] = "/"

\* connectUrl.slice(0, -1)
DropLast(url) == SubSeq(url, 1, Len(url) - 1)

\* let connectUrl = this.url; if (this.namespace !== '/') { strip a trailing
\* slash; connectUrl = connectUrl + this.namespace }
ConnectUrl(base, ns) ==
  IF ns # "/"
  THEN (IF EndsWithSlash(base) THEN DropLast(base) ELSE base) \o <<ns>>
  ELSE base

\* req.getUrl(): what follows the host, "/" when the URL has no path
RequestUrl(url) ==
  LET rest == Tail(url)
  IN  IF rest = <<>> \/ Head(rest) = "?" THEN <<"/">> \o rest ELSE rest

\* new SmartSocketClient(url, { namespace }): the connect URL is built
ClientBuild(base, ns) ==
  /\ urlBase' = base
  /\ urlNamespace' = ns
  /\ urlConnect' = ConnectUrl(base, ns)
  /\ last' = Quiet
  /\ UNCHANGED <<nextSocketId, sockets, sockNamespace, sockRooms, nsSockets,
                 nsRooms, srvRooms, emitter, handlerVars>>
  /\ UNCHANGED disconnectedFired
  /\ UNCHANGED nonBrokerUrlVars

\* ------------------------------------------------------ rooms: join/leave
\* a reference held by an emitter to a Set that has been removed from the
\* Map points to an empty Set from then on
EmitterAfter(newNsRooms) ==
  IF emitter.kind = "live" /\ ~MapHas(newNsRooms[emitter.ns], emitter.room)
  THEN [emitter EXCEPT !.kind = "dead"]
  ELSE emitter

\* socket.join(room)
JoinSockRooms(s, r) == [sockRooms EXCEPT ![s] = @ \cup {r}]

\* a join that records the room on the socket and in server.rooms only
JoinNsRoomsNotIndexed(s, r) == nsRooms

JoinNsRooms(s, r) == [nsRooms EXCEPT ![sockNamespace[s]] = MapAdd(@, r, s)]
JoinSrvRooms(s, r) == MapAdd(srvRooms, r, s)

\* socket.leave(room): a silent no-op when the socket is not in the room
LeaveSockRooms(sr, s, r) == [sr EXCEPT ![s] = @ \ {r}]
LeaveNsRooms(nr, s, r) == [nr EXCEPT ![sockNamespace[s]] = MapRemove(@, r, s)]
LeaveSrvRooms(m, s, r) == MapRemove(m, r, s)

\* socket.rooms.forEach(room => socket.leave(room))
RECURSIVE LeaveAllNs(_, _, _)
LeaveAllNs(nr, s, R) ==
  IF R = {} THEN nr
  ELSE LET r == CHOOSE x \in R : TRUE
       IN LeaveAllNs(LeaveNsRooms(nr, s, r), s, R \ {r})

RECURSIVE LeaveAllSrv(_, _, _)
LeaveAllSrv(m, s, R) ==
  IF R = {} THEN m
  ELSE LET r == CHOOSE x \in R : TRUE
       IN LeaveAllSrv(LeaveSrvRooms(m, s, r), s, R \ {r})

RECURSIVE LeaveAllSock(_, _, _)
LeaveAllSock(sr, s, R) ==
  IF R = {} THEN sr
  ELSE LET r == CHOOSE x \in R : TRUE
       IN LeaveAllSock(LeaveSockRooms(sr, s, r), s, R \ {r})

\* a disconnect handler that leaves no room
DisconnectLeavesNothing(s) == {}

\* server.on('disconnect'): the rooms the handler leaves
DisconnectLeaves(s) ==
  IF sockRooms[s] # {} /\ Cardinality(sockRooms[s]) > 0 THEN sockRooms[s] ELSE {}

\* socket.join(room) called by application code
SocketJoin(s, r) ==
  /\ s \in sockets
  /\ sockRooms' = JoinSockRooms(s, r)
  /\ nsRooms' = JoinNsRooms(s, r)
  /\ srvRooms' = JoinSrvRooms(s, r)
  /\ emitter' = EmitterAfter(nsRooms')
  /\ last' = Quiet
  /\ UNCHANGED <<nextSocketId, sockets, sockNamespace, nsSockets, handlerVars>>
  /\ UNCHANGED disconnectedFired
  /\ UNCHANGED nonBrokerVars

\* socket.leave(room) called by application code
SocketLeave(s, r) ==
  /\ s \in sockets
  /\ sockRooms' = LeaveSockRooms(sockRooms, s, r)
  /\ nsRooms' = LeaveNsRooms(nsRooms, s, r)
  /\ srvRooms' = LeaveSrvRooms(srvRooms, s, r)
  /\ emitter' = EmitterAfter(nsRooms')
  /\ last' = IF MapGet(nsRooms[sockNamespace[s]], r) = {s}
             THEN [Idle("last-leave") EXCEPT !.ns = sockNamespace[s], !.room = r]
             ELSE Quiet
  /\ UNCHANGED <<nextSocketId, sockets, sockNamespace, nsSockets, handlerVars>>
  /\ UNCHANGED disconnectedFired
  /\ UNCHANGED nonBrokerVars

\* close of a socket: the library drops it from server.sockets and from its
\* namespace, fires 'disconnected' on the namespace, then the application's
\* server.on('disconnect') handler runs;
\* the socket object is gone afterwards (its id is never used again)
Close(s) ==
  /\ s \in sockets
  /\ sockets' = sockets \ {s}
  /\ nsSockets' = [n \in Namespaces |-> nsSockets[n] \ {s}]
  /\ sockRooms' = LeaveAllSock(sockRooms, s, DisconnectLeaves(s))
  /\ nsRooms' = LeaveAllNs(nsRooms, s, DisconnectLeaves(s))
  /\ srvRooms' = LeaveAllSrv(srvRooms, s, DisconnectLeaves(s))
  /\ emitter' = EmitterAfter(nsRooms')
  /\ sockNamespace' = [sockNamespace EXCEPT ![s] = RootNs]
  /\ disconnectedFired' = [disconnectedFired EXCEPT ![s] = @ + 1]
  /\ last' = Quiet
  /\ UNCHANGED <<nextSocketId, handlerVars>>
  /\ UNCHANGED nonBrokerVars

\* ------------------------------------------------------------ broadcasts
\* Namespace.to(room), fixed version: const roomSockets = this.rooms.get(room);
\* if (!roomSockets || roomSockets.size === 0) return { emit: () => {} }
ToIsNoopOffByOne(rooms, r) == ~MapHas(rooms, r) \/ Cardinality(rooms[r]) <= 1

ToIsNoop(rooms, r) == ~MapHas(rooms, r) \/ Cardinality(rooms[r]) = 0

\* a to(room) that creates the entry of a room it does not find
ToNsRoomsCreatesEntry(n, r) ==
  IF MapHas(nsRooms[n], r) THEN nsRooms
  ELSE [nsRooms EXCEPT ![n] = [k \in (DOMAIN @) \cup {r} |->
                                 IF k = r THEN {} ELSE @[k]]]

\* the room index after Namespace.to(room): this.rooms.get(room) only reads
ToNsRooms(n, r) == nsRooms

\* the emit closure: roomSockets.forEach(socket => socket.emit(event, data)),
\* roomSockets being the Set found by to(room), read when emit runs
EmitTargets(rooms, r) == IF MapHas(rooms, r) THEN rooms[r] ELSE {}

\* namespace.to(room).emit(event, data) as one chained call
ChainedTargets(rooms, r) ==
  IF ToIsNoop(rooms, r) THEN {} ELSE EmitTargets(rooms, r)

\* namespace.to(room): the returned object is kept by the caller
NsTo(n, r) ==
  /\ emitter' = IF ToIsNoop(nsRooms[n], r)
                THEN [kind |-> "noop", ns |-> n, room |-> r, snap |-> {}]
                ELSE [kind |-> "live", ns |-> n, room |-> r, snap |-> nsRooms[n][r]]
  /\ nsRooms' = ToNsRooms(n, r)
  /\ last' = Quiet
  /\ UNCHANGED <<nextSocketId, sockets, sockNamespace, sockRooms, nsSockets,
                 srvRooms, handlerVars>>
  /\ UNCHANGED disconnectedFired
  /\ UNCHANGED nonBrokerVars

\* emit(event, data) on the object returned earlier by namespace.to(room)
EmitterEmit ==
  /\ emitter.kind # "none"
  /\ last' = [Idle("to.emit") EXCEPT
                !.ns = emitter.ns, !.room = emitter.room, !.snap = emitter.snap,
                !.recv = IF emitter.kind = "live"
                         THEN SendTo(EmitTargets(nsRooms[emitter.ns], emitter.room))
                         ELSE NoRecv]
  /\ emitter' = NoEmitter
  /\ UNCHANGED <<nextSocketId, sockets, sockNamespace, sockRooms, nsSockets,
                 nsRooms, srvRooms, handlerVars>>
  /\ UNCHANGED disconnectedFired
  /\ UNCHANGED nonBrokerVars

\* namespace.emit(event, data): every socket of the namespace
NamespaceEmitTargets(n) == nsSockets[n]

NamespaceEmit(n) ==
  /\ last' = [Idle("ns.emit") EXCEPT !.ns = n, !.snap = nsSockets[n],
                                      !.recv = SendTo(NamespaceEmitTargets(n))]
  /\ UNCHANGED <<nextSocketId, sockets, sockNamespace, sockRooms, nsSockets,
                 nsRooms, srvRooms, emitter, handlerVars>>
  /\ UNCHANGED disconnectedFired
  /\ UNCHANGED nonBrokerVars

\* Server.to(room): const roomSockets = this.rooms.get(room); a no-op emitter
\* when missing or empty, else roomSockets.forEach(socket => socket.ws.send(..))
ServerToTargets(id) ==
  IF ~MapHas(srvRooms, id) \/ Cardinality(srvRooms[id]) = 0 THEN {} ELSE srvRooms[id]

\* server.to(socketId).emit(event, data)
ServerToEmit(id) ==
  /\ last' = [Idle("server.to") EXCEPT !.room = id, !.snap = sockets,
                                        !.recv = SendTo(ServerToTargets(id))]
  /\ UNCHANGED <<nextSocketId, sockets, sockNamespace, sockRooms, nsSockets,
                 nsRooms, srvRooms, emitter, handlerVars>>
  /\ UNCHANGED disconnectedFired
  /\ UNCHANGED nonBrokerVars

\* ----------------------------------------------------- message dispatch
\* the router before the fix: socket handlers, then server handlers, and no
\* look at the namespace's handlers
RouteOld(ns, nsH, sockH, srvH, ev) ==
  IF ev \in sockH THEN <<"socket">>
  ELSE IF ev \in srvH THEN <<"server">>
  ELSE <<>>

\* message router, the handlers it invokes for one frame, in order:
\*   if (socket.namespace) { namespace = namespaces.get(socket.namespace);
\*     if (namespace && namespace.handlers[event]) { ...; return; } }
\*   if (socket.handlers[event]) ... else if (this.handlers[event]) ...
Route(ns, nsH, sockH, srvH, ev) ==
  IF ns # "" /\ ns \in DOMAIN nsH /\ ev \in nsH[ns] THEN <<"namespace">>
  ELSE IF ev \in sockH THEN <<"socket">>
  ELSE IF ev \in srvH THEN <<"server">>
  ELSE <<>>

\* quizNS.on('join-quiz'):
\*   socket.join(quizCode); quizNS.to(quizCode).emit(...)
HandleJoin(s, ev, data) ==
  /\ ev \in JoinEvents
  /\ IF data.quizCode = NoCode \/ data.playerId = 0
     THEN /\ last' = Quiet
          /\ UNCHANGED <<sockRooms, nsRooms, srvRooms, emitter>>
     ELSE /\ sockRooms' = JoinSockRooms(s, data.quizCode)
          /\ nsRooms' = JoinNsRooms(s, data.quizCode)
          /\ srvRooms' = JoinSrvRooms(s, data.quizCode)
          /\ emitter' = EmitterAfter(nsRooms')
          /\ last' = [Idle("join+broadcast") EXCEPT
                        !.ns = "/quiz", !.room = data.quizCode, !.from = s,
                        !.snap = MapGet(nsRooms'["/quiz"], data.quizCode),
                        !.recv = SendTo(ChainedTargets(nsRooms'["/quiz"],
                                                       data.quizCode))]

\* the auto-broadcast handlers: if (!data.quizCode) return;
\*   quizNS.to(data.quizCode).emit(event, data)
HandleAutoBroadcast(s, ev, data) ==
  /\ ev \in AutoBroadcastEvents
  /\ IF data.quizCode = NoCode
     THEN /\ last' = Quiet
          /\ UNCHANGED nsRooms
     ELSE /\ nsRooms' = ToNsRooms("/quiz", data.quizCode)
          /\ last' = [Idle("broadcast") EXCEPT
                        !.ns = "/quiz", !.room = data.quizCode, !.from = s,
                        !.snap = MapGet(nsRooms["/quiz"], data.quizCode),
                        !.recv = SendTo(ChainedTargets(nsRooms["/quiz"],
                                                       data.quizCode))]
  /\ UNCHANGED <<sockRooms, srvRooms, emitter>>

\* quizNS.on('get-players'): if (!data.quizCode) return;
\*   room = socket.server.rooms.get(data.quizCode);
\*   socket.emit('players-list', { quizCode, count: room ? room.size : 0 })
GetPlayers(s, ev, data) ==
  /\ s \in sockets
  /\ ev \in PlayersEvents
  /\ Route(sockNamespace[s], nsHandlers, sockHandlers[s], srvHandlers, ev)
       = <<"namespace">>
  /\ IF data.quizCode = NoCode
     THEN last' = Quiet
     ELSE last' = [Idle("players-list") EXCEPT
                     !.ns = sockNamespace[s], !.room = data.quizCode, !.from = s,
                     !.count = Cardinality(MapGet(srvRooms, data.quizCode)),
                     !.recv = SendTo({s})]
  /\ UNCHANGED <<nextSocketId, sockets, sockNamespace, sockRooms, nsSockets,
                 nsRooms, srvRooms, emitter, handlerVars>>
  /\ UNCHANGED disconnectedFired
  /\ UNCHANGED nonBrokerVars

\* an inbound event frame from socket s
HandleMessage(s, ev, data) ==
  /\ s \in sockets
  /\ ev \in QuizEvents
  /\ IF Route(sockNamespace[s], nsHandlers, sockHandlers[s], srvHandlers, ev)
          = <<"namespace">>
     THEN \/ HandleJoin(s, ev, data)
          \/ HandleAutoBroadcast(s, ev, data)
     ELSE /\ last' = Quiet
          /\ UNCHANGED <<sockRooms, nsRooms, srvRooms, emitter>>
  /\ UNCHANGED <<nextSocketId, sockets, sockNamespace, nsSockets, handlerVars>>
  /\ UNCHANGED disconnectedFired
  /\ UNCHANGED nonBrokerVars

\* ------------------------------------------------- handler exceptions
ThInit == thThrew = {}

SocketsAfterThrowClosed(s) == sockets \ {s}

\* the exception of a handler is caught: the sending socket stays open
SocketsAfterThrow(s) == sockets

\* a frame without data reaches a handler of the quiz namespace, which reads
\* data.quizCode and throws
HandlerThrows(s, ev) ==
  /\ s \in sockets
  /\ ev \in QuizEvents
  /\ Route(sockNamespace[s], nsHandlers, sockHandlers[s], srvHandlers, ev)
       = <<"namespace">>
  /\ Cardinality(thThrew \cup {s}) <= MaxThrows
  /\ thThrew' = thThrew \cup {s}
  /\ sockets' = SocketsAfterThrow(s)
  /\ last' = [Idle("handler-threw") EXCEPT !.from = s, !.ev = ev]
  /\ UNCHANGED <<nextSocketId, sockNamespace, sockRooms, nsSockets, nsRooms,
                 srvRooms, emitter, handlerVars>>
  /\ UNCHANGED disconnectedFired
  /\ UNCHANGED nonBrokerThVars

\* ---------------------------------------------------------- rate limiter
RateInit ==
  /\ rlNow = 0
  /\ rlRequests = <<>>
  /\ rlAdmitted = [t \in 0..MaxTime |-> 0]
  /\ rlAllowed = TRUE

\* the clock advances
Tick ==
  /\ rlNow < MaxTime
  /\ rlNow' = rlNow + 1
  /\ UNCHANGED <<rlRequests, rlAdmitted, rlAllowed>>
  /\ UNCHANGED nonRateVars

\* this.requests.filter(ts => now - ts < this.window)
InWindow(now, ts) == now - ts < RateWindow

KeptRequests(reqs, now) == SelectSeq(reqs, LAMBDA ts : InWindow(now, ts))

\* isAllowed()
IsAllowed ==
  /\ IF Len(KeptRequests(rlRequests, rlNow)) >= RateMaxRequests
     THEN /\ rlRequests' = KeptRequests(rlRequests, rlNow)
          /\ rlAllowed' = FALSE
          /\ UNCHANGED rlAdmitted
     ELSE /\ rlRequests' = Append(KeptRequests(rlRequests, rlNow), rlNow)
          /\ rlAllowed' = TRUE
          /\ rlAdmitted' = [rlAdmitted EXCEPT ![rlNow] = @ + 1]
  /\ UNCHANGED rlNow
  /\ UNCHANGED nonRateVars

RateNext == Tick \/ IsAllowed

\* ------------------------------------------- acknowledgement correlator
AckIds == 1..MaxAcks

AckInit ==
  /\ ackNextId = 1
  /\ ackTable = {}
  /\ ackRequests = {}
  /\ ackInFlight = {}
  /\ ackResponses = [i \in AckIds |-> 0]
  /\ ackTimeouts = [i \in AckIds |-> 0]
  /\ senderOpen = TRUE
  /\ receiverOpen = TRUE

\* emit(event, data, callback): 1. message sent with a unique ACK_ID,
\* 2. timer started for ackTimeout
AckEmit ==
  /\ senderOpen
  /\ ackNextId <= MaxAcks
  /\ ackNextId' = ackNextId + 1
  /\ ackTable' = ackTable \cup {ackNextId}
  /\ ackRequests' = IF receiverOpen THEN ackRequests \cup {ackNextId}
                    ELSE ackRequests
  /\ UNCHANGED <<ackInFlight, ackResponses, ackTimeouts, senderOpen, receiverOpen>>
  /\ UNCHANGED nonAckVars

\* the receiving handler calls ack(response): an ACK frame with the same id
HandlerAcks(i) ==
  /\ receiverOpen
  /\ i \in ackRequests
  /\ ackRequests' = ackRequests \ {i}
  /\ ackInFlight' = IF senderOpen THEN ackInFlight \cup {i} ELSE ackInFlight
  /\ UNCHANGED <<ackNextId, ackTable, ackResponses, ackTimeouts, senderOpen,
                 receiverOpen>>
  /\ UNCHANGED nonAckVars

\* the table once the ACK frame for i has been matched: timer cancelled,
\* entry removed
TableAfterAck(i) == ackTable \ {i}

\* 3. the peer responds with the same ACK_ID: cancel timer, call callback;
\* an ACK whose id is not in the table is dropped
AckArrives(i) ==
  /\ senderOpen
  /\ i \in ackInFlight
  /\ ackInFlight' = ackInFlight \ {i}
  /\ IF i \in ackTable
     THEN /\ ackTable' = TableAfterAck(i)
          /\ ackResponses' = [ackResponses EXCEPT ![i] = @ + 1]
     ELSE UNCHANGED <<ackTable, ackResponses>>
  /\ UNCHANGED <<ackNextId, ackRequests, ackTimeouts, senderOpen, receiverOpen>>
  /\ UNCHANGED nonAckVars

\* a timer expiry handled as a lost connection: the sender is closed
TimerFiresClosesConnection(i) ==
  /\ i \in ackTable
  /\ ackTable' = ackTable \ {i}
  /\ ackTimeouts' = [ackTimeouts EXCEPT ![i] = @ + 1]
  /\ senderOpen' = FALSE
  /\ UNCHANGED <<ackNextId, ackRequests, ackInFlight, ackResponses, receiverOpen>>
  /\ UNCHANGED nonAckVars

\* 4. timer expires: call callback with the timeout error
TimerFires(i) ==
  /\ i \in ackTable
  /\ ackTable' = ackTable \ {i}
  /\ ackTimeouts' = [ackTimeouts EXCEPT ![i] = @ + 1]
  /\ UNCHANGED <<ackNextId, ackRequests, ackInFlight, ackResponses, senderOpen,
                 receiverOpen>>
  /\ UNCHANGED nonAckVars

\* the sender is closed: the ack timers it owns are cancelled
SenderClose ==
  /\ senderOpen
  /\ senderOpen' = FALSE
  /\ ackTable' = {}
  /\ ackInFlight' = {}
  /\ UNCHANGED <<ackNextId, ackRequests, ackResponses, ackTimeouts, receiverOpen>>
  /\ UNCHANGED nonAckVars

\* the receiving peer is closed: what it had not answered is never answered;
\* the sender's timers keep running
ReceiverClose ==
  /\ receiverOpen
  /\ receiverOpen' = FALSE
  /\ ackRequests' = {}
  /\ UNCHANGED <<ackNextId, ackTable, ackInFlight, ackResponses, ackTimeouts,
                 senderOpen>>
  /\ UNCHANGED nonAckVars

AckNext ==
  \/ AckEmit
  \/ \E i \in AckIds : HandlerAcks(i)
  \/ \E i \in AckIds : AckArrives(i)
  \/ \E i \in AckIds : TimerFires(i)
  \/ SenderClose
  \/ ReceiverClose

\* ------------------------------------------------- ack-id allocation
NoAck == [answered |-> 0, completed |-> 0, outstanding |-> FALSE]

IdInit ==
  /\ idCounter = 0
  /\ idEmits = 0
  /\ idOutstanding = {}
  /\ idAcks = {}
  /\ idLastAck = NoAck

OutstandingIds(table) == {rec.id : rec \in table}

\* an allocator that hands out the counter's value whatever is outstanding
NextAckIdNoSkip(counter, table) == counter

\* the id of the next ack record: the first value from the counter onwards,
\* modulo the id space, that no outstanding record holds
NextAckId(counter, table) ==
  LET free == {k \in 0..(AckIdSpace - 1) :
                 (counter + k) % AckIdSpace \notin OutstandingIds(table)}
  IN (counter + CHOOSE k \in free : \A j \in free : k <= j) % AckIdSpace

\* emit(event, data, callback): a record with a fresh id enters the table
IdEmit ==
  /\ idEmits < MaxEmits
  /\ Cardinality(OutstandingIds(idOutstanding)) < AckIdSpace
  /\ LET rec == [id |-> NextAckId(idCounter, idOutstanding), emit |-> idEmits + 1]
     IN /\ idOutstanding' = idOutstanding \cup {rec}
        /\ idAcks' = idAcks \cup {rec}
        /\ idCounter' = (rec.id + 1) % AckIdSpace
  /\ idEmits' = idEmits + 1
  /\ UNCHANGED idLastAck
  /\ UNCHANGED nonIdVars

\* the ACK frame answering a request reaches the sender: the record holding
\* its id, if any, is completed
IdAckArrives(a) ==
  /\ a \in idAcks
  /\ idAcks' = idAcks \ {a}
  /\ IF a.id \in OutstandingIds(idOutstanding)
     THEN \E rec \in idOutstanding :
            /\ rec.id = a.id
            /\ idOutstanding' = idOutstanding \ {rec}
            /\ idLastAck' = [answered |-> a.emit, completed |-> rec.emit,
                             outstanding |-> a \in idOutstanding]
     ELSE /\ idLastAck' = [NoAck EXCEPT !.answered = a.emit]
          /\ UNCHANGED idOutstanding
  /\ UNCHANGED <<idCounter, idEmits>>
  /\ UNCHANGED nonIdVars

\* the timer of a record fires: the record leaves the table
IdTimeout(rec) ==
  /\ rec \in idOutstanding
  /\ idOutstanding' = idOutstanding \ {rec}
  /\ UNCHANGED <<idCounter, idEmits, idAcks, idLastAck>>
  /\ UNCHANGED nonIdVars

\* the receiver never answers a request
IdNeverAnswered(a) ==
  /\ a \in idAcks
  /\ idAcks' = idAcks \ {a}
  /\ UNCHANGED <<idCounter, idEmits, idOutstanding, idLastAck>>
  /\ UNCHANGED nonIdVars

IdRecords == [id : 0..(AckIdSpace - 1), emit : 1..MaxEmits]

IdNext ==
  \/ IdEmit
  \/ \E a \in IdRecords : IdAckArrives(a)
  \/ \E rec \in IdRecords : IdTimeout(rec)
  \/ \E a \in IdRecords : IdNeverAnswered(a)

\* ------------------------------------------------------ middleware chain
MwKinds == {"log", "auth", "validate", "limiter"}
MwEvents == {"message", "delete"}
MwData == {"object", "null"}

NoFrame ==
  [op |-> "idle", ev |-> "", now |-> 0, before |-> <<>>, ran |-> <<>>,
   outs |-> <<>>, handler |-> 0, replies |-> <<>>, open |-> TRUE]

MwInit ==
  /\ mwChain = <<>>
  /\ mwAuthenticated = FALSE
  /\ mwRequests = <<>>
  /\ mwLast = NoFrame

\* server.use(middleware), each of the documented middlewares once
Use(kind) ==
  /\ Len(mwChain) < MaxMiddleware
  /\ \A i \in DOMAIN mwChain : mwChain[i] # kind
  /\ mwChain' = Append(mwChain, kind)
  /\ mwLast' = NoFrame
  /\ UNCHANGED <<mwAuthenticated, mwRequests>>
  /\ UNCHANGED nonMwVars
  /\ UNCHANGED rateVars

\* socket.data.authenticated = true in the authenticate handler
Authenticate ==
  /\ ~mwAuthenticated
  /\ mwAuthenticated' = TRUE
  /\ mwLast' = NoFrame
  /\ UNCHANGED <<mwChain, mwRequests>>
  /\ UNCHANGED nonMwVars
  /\ UNCHANGED rateVars

\* limiter.isAllowed() of the socket's own limiter
LimiterAllowed(reqs, now) == Len(KeptRequests(reqs, now)) < RateMaxRequests

LimiterRequests(reqs, now) ==
  IF LimiterAllowed(reqs, now)
  THEN Append(KeptRequests(reqs, now), now)
  ELSE KeptRequests(reqs, now)

\* what a middleware passes to next: "next" for next(), else the message of
\* the Error it passes
MwOutcome(kind, auth, data, allowed) ==
  CASE kind = "log" -> "next"
    [] kind = "auth" -> IF auth THEN "next" ELSE "Not authenticated"
    [] kind = "validate" ->
         IF data = "object" THEN "next" ELSE "Invalid data format"
    [] kind = "limiter" -> IF allowed THEN "next" ELSE "Rate limit exceeded"

\* socket.emit('error', { event, message: error.message })
ErrorFrame(ev, message) ==
  [event |-> "error", about |-> ev, message |-> message]

MwContinuesAfterError(outcome) == TRUE

\* the chain goes on to the next middleware after next() without an error
MwContinues(outcome) == outcome = "next"

\* the chain from its first middleware on; the handler after the last one
RECURSIVE RunChain(_, _, _)
RunChain(chain, frame, st) ==
  IF chain = <<>>
  THEN [st EXCEPT !.handler = 1]
  ELSE LET kind == Head(chain)
           out == MwOutcome(kind, frame.auth, frame.data,
                            LimiterAllowed(st.requests, frame.now))
           reqs == IF kind = "limiter"
                   THEN LimiterRequests(st.requests, frame.now)
                   ELSE st.requests
           ran == [st EXCEPT !.ran = Append(@, kind),
                             !.outs = Append(@, out),
                             !.requests = reqs]
       IN  IF MwContinues(out)
           THEN RunChain(Tail(chain), frame, ran)
           ELSE [ran EXCEPT
                   !.replies = Append(@, ErrorFrame(frame.ev, out))]

\* an inbound frame of the socket
Frame(ev, data) ==
  LET frame == [ev |-> ev, data |-> data, auth |-> mwAuthenticated,
                now |-> rlNow]
      res == RunChain(mwChain, frame,
                      [ran |-> <<>>, outs |-> <<>>, handler |-> 0,
                       replies |-> <<>>, requests |-> mwRequests])
  IN  /\ mwRequests' = res.requests
      /\ mwLast' = [op |-> "frame", ev |-> ev, now |-> rlNow,
                    before |-> mwRequests, ran |-> res.ran,
                    outs |-> res.outs, handler |-> res.handler,
                    replies |-> res.replies, open |-> TRUE]
      /\ UNCHANGED <<mwChain, mwAuthenticated>>
      /\ UNCHANGED nonMwVars
      /\ UNCHANGED rateVars

MwNext ==
  \/ \E kind \in MwKinds : Use(kind)
  \/ Authenticate
  \/ Tick
  \/ \E ev \in MwEvents, data \in MwData : Frame(ev, data)

\* ------------------------------------------------------- reconnection
NoAttempt == 0 - 1

RcInit ==
  /\ rcConnected = TRUE
  /\ rcTimer = NoAttempt
  /\ rcDelay = 0
  /\ rcConnecting = NoAttempt
  /\ rcAttempts = <<>>
  /\ rcFailed = 0
  /\ rcEmitted = <<>>
  /\ rcLosses = 0
  /\ rcReconnectDelay = 1
  /\ rcWaits = <<>>

RECURSIVE Pow(_, _)
Pow(b, e) == IF e = 0 THEN 1 ELSE b * Pow(b, e - 1)

\* Math.min(this.reconnectDelay * Math.pow(1.5, attempt), 60000), in whole
\* time units
BackoffDelayNoCap(reconnectDelay, attempt) ==
  (reconnectDelay * Pow(3, attempt)) \div Pow(2, attempt)

BackoffDelay(reconnectDelay, attempt) ==
  LET d == (reconnectDelay * Pow(3, attempt)) \div Pow(2, attempt)
  IN  IF d < MaxDelay THEN d ELSE MaxDelay

GivesUpOneLate(attempt) == attempt > MaxReconnectAttempts

\* if (attempt >= this.maxReconnectAttempts)
GivesUp(attempt) == attempt >= MaxReconnectAttempts

\* reconnect(attempt)
Reconnect(attempt, emitted, waits) ==
  IF GivesUp(attempt)
  THEN /\ rcEmitted' = Append(emitted, "max-reconnect-attempts-reached")
       /\ rcTimer' = NoAttempt
       /\ rcDelay' = 0
       /\ rcWaits' = waits
  ELSE /\ rcEmitted' = emitted
       /\ rcTimer' = attempt
       /\ rcDelay' = BackoffDelay(rcReconnectDelay, attempt)
       /\ rcWaits' = Append(waits, BackoffDelay(rcReconnectDelay, attempt))

\* new SmartSocketClient(url, { reconnectDelay }), before the first loss
SetReconnectDelay(delay) ==
  /\ rcLosses = 0
  /\ rcReconnectDelay' = delay
  /\ UNCHANGED <<rcConnected, rcTimer, rcDelay, rcConnecting, rcAttempts,
                 rcFailed, rcEmitted, rcLosses, rcWaits>>
  /\ UNCHANGED nonRcVars

\* the transport is lost without the user asking for it: reconnect()
TransportLoss ==
  /\ rcConnected
  /\ rcLosses < MaxLosses
  /\ rcLosses' = rcLosses + 1
  /\ rcConnected' = FALSE
  /\ rcAttempts' = Append(rcAttempts, 0)
  /\ rcFailed' = 0
  /\ Reconnect(0, <<>>, <<>>)
  /\ UNCHANGED <<rcConnecting, rcReconnectDelay>>
  /\ UNCHANGED nonRcVars

\* time passes while the timer is pending
BackoffTick ==
  /\ rcTimer # NoAttempt
  /\ rcDelay > 0
  /\ rcDelay' = rcDelay - 1
  /\ UNCHANGED <<rcConnected, rcTimer, rcConnecting, rcAttempts, rcFailed,
                 rcEmitted, rcLosses, rcReconnectDelay, rcWaits>>
  /\ UNCHANGED nonRcVars

\* the setTimeout callback: this.connect()
TimerExpires ==
  /\ rcTimer # NoAttempt
  /\ rcDelay = 0
  /\ rcConnecting' = rcTimer
  /\ rcTimer' = NoAttempt
  /\ rcAttempts' = [rcAttempts EXCEPT ![rcLosses] = @ + 1]
  /\ UNCHANGED <<rcConnected, rcDelay, rcFailed, rcEmitted, rcLosses,
                 rcReconnectDelay, rcWaits>>
  /\ UNCHANGED nonRcVars

\* .then: this.reconnectAttempt = 0; this.emit('reconnected')
ConnectSucceeds ==
  /\ rcConnecting # NoAttempt
  /\ rcConnecting' = NoAttempt
  /\ rcConnected' = TRUE
  /\ rcEmitted' = Append(rcEmitted, "reconnected")
  /\ UNCHANGED <<rcTimer, rcDelay, rcAttempts, rcFailed, rcLosses,
                 rcReconnectDelay, rcWaits>>
  /\ UNCHANGED nonRcVars

\* .catch: this.reconnect(attempt + 1)
ConnectFails ==
  /\ rcConnecting # NoAttempt
  /\ rcConnecting' = NoAttempt
  /\ rcFailed' = rcFailed + 1
  /\ Reconnect(rcConnecting + 1, rcEmitted, rcWaits)
  /\ UNCHANGED <<rcConnected, rcAttempts, rcLosses, rcReconnectDelay>>
  /\ UNCHANGED nonRcVars

RcNext ==
  \/ \E delay \in 1..MaxReconnectDelay : SetReconnectDelay(delay)
  \/ TransportLoss
  \/ BackoffTick
  \/ TimerExpires
  \/ ConnectSucceeds
  \/ ConnectFails

\* ------------------------------------------------------ offline queue
\* 'connected' listeners: the flush of the queue, and a listener of the
\* application that emits
ListenerKinds == {"flush", "app"}

MqInit ==
  /\ mqListeners = <<>>
  /\ mqOpen = TRUE
  /\ mqNow = 0
  /\ mqQueue = <<>>
  /\ mqNextMessage = 1
  /\ mqOffline = <<>>
  /\ mqSent = <<>>
  /\ mqAcked = {}
  /\ mqTimers = {}
  /\ mqTimedOut = {}

QueueFullOneLate(queue) == Len(queue) > MaxQueueSize

\* this.queue.length >= this.maxSize
QueueFull(queue) == Len(queue) >= MaxQueueSize

\* enqueue(message)
Enqueue(queue, message, now) ==
  Append(IF QueueFull(queue) THEN Tail(queue) ELSE queue,
         [message |-> message, timestamp |-> now])

\* flush(socket): what socket.send receives, oldest first
RECURSIVE Flush(_, _)
Flush(queue, now) ==
  IF queue = <<>>
  THEN <<>>
  ELSE <<[message |-> Head(queue).message,
          age |-> now - Head(queue).timestamp]>>
         \o Flush(Tail(queue), now)

\* the listener that flushes the queue is registered
MqReady == \E i \in DOMAIN mqListeners : mqListeners[i] = "flush"

\* client.on('connected', listener), before the client is used
OnConnected(kind) ==
  /\ mqOpen /\ mqNextMessage = 1 /\ mqNow = 0
  /\ \A i \in DOMAIN mqListeners : mqListeners[i] # kind
  /\ mqListeners' = Append(mqListeners, kind)
  /\ UNCHANGED <<mqOpen, mqNow, mqQueue, mqNextMessage, mqOffline, mqSent,
                 mqAcked, mqTimers, mqTimedOut>>
  /\ UNCHANGED nonMqVars

\* socket.send(message) of an emit made while connected
SendNow(message) == <<[message |-> message, age |-> 0]>>

\* client.emit(event, data, callback?) while connected
EmitOpen(acked) ==
  /\ MqReady
  /\ mqOpen
  /\ mqNextMessage <= MaxMessages
  /\ mqNextMessage' = mqNextMessage + 1
  /\ mqSent' = mqSent \o SendNow(mqNextMessage)
  /\ mqAcked' = IF acked THEN mqAcked \cup {mqNextMessage} ELSE mqAcked
  /\ mqTimers' = IF acked THEN mqTimers \cup {mqNextMessage} ELSE mqTimers
  /\ UNCHANGED <<mqListeners, mqOpen, mqNow, mqQueue, mqOffline, mqTimedOut>>
  /\ UNCHANGED nonMqVars

\* client.emit(event, data, callback?) while not connected; the ack timer of
\* a queued emit is started at the emit or not at all
EmitOffline(acked, armed) ==
  /\ ~mqOpen
  /\ mqNextMessage <= MaxMessages
  /\ armed => acked
  /\ mqNextMessage' = mqNextMessage + 1
  /\ mqQueue' = Enqueue(mqQueue, mqNextMessage, mqNow)
  /\ mqOffline' = Append(mqOffline, mqNextMessage)
  /\ mqAcked' = IF acked THEN mqAcked \cup {mqNextMessage} ELSE mqAcked
  /\ mqTimers' = IF armed THEN mqTimers \cup {mqNextMessage} ELSE mqTimers
  /\ UNCHANGED <<mqListeners, mqOpen, mqNow, mqSent, mqTimedOut>>
  /\ UNCHANGED nonMqVars

\* the transport is lost
MqLoss ==
  /\ MqReady
  /\ mqOpen
  /\ mqOpen' = FALSE
  /\ UNCHANGED <<mqListeners, mqNow, mqQueue, mqNextMessage, mqOffline,
                 mqSent, mqAcked, mqTimers, mqTimedOut>>
  /\ UNCHANGED nonMqVars

\* one 'connected' listener after the other, in registration order
RECURSIVE RunListeners(_, _)
RunListeners(listeners, st) ==
  IF listeners = <<>>
  THEN st
  ELSE RunListeners(Tail(listeners),
         IF Head(listeners) = "flush"
         THEN [st EXCEPT !.sent = @ \o Flush(st.queue, mqNow),
                         !.queue = <<>>]
         ELSE IF st.next <= MaxMessages
              THEN [st EXCEPT !.sent = @ \o SendNow(st.next),
                              !.next = @ + 1]
              ELSE st)

\* the client is connected again: 'connected' fires
MqConnected ==
  LET st == RunListeners(mqListeners,
              [sent |-> mqSent, queue |-> mqQueue, next |-> mqNextMessage])
  IN  /\ ~mqOpen
      /\ mqOpen' = TRUE
      /\ mqSent' = st.sent
      /\ mqQueue' = st.queue
      /\ mqNextMessage' = st.next
      /\ mqOffline' = <<>>
      /\ UNCHANGED <<mqListeners, mqNow, mqAcked, mqTimers, mqTimedOut>>
      /\ UNCHANGED nonMqVars

MqTick ==
  /\ MqReady
  /\ mqNow < MaxQueueTime
  /\ mqNow' = mqNow + 1
  /\ UNCHANGED <<mqListeners, mqOpen, mqQueue, mqNextMessage, mqOffline,
                 mqSent, mqAcked, mqTimers, mqTimedOut>>
  /\ UNCHANGED nonMqVars

\* 4. Timer expires -> call callback with timeout error
MqTimerExpires(m) ==
  /\ m \in mqTimers
  /\ mqTimers' = mqTimers \ {m}
  /\ mqTimedOut' = mqTimedOut \cup {m}
  /\ UNCHANGED <<mqListeners, mqOpen, mqNow, mqQueue, mqNextMessage,
                 mqOffline, mqSent, mqAcked>>
  /\ UNCHANGED nonMqVars

\* emits without an ack callback
MqNext ==
  \/ \E kind \in ListenerKinds : OnConnected(kind)
  \/ EmitOpen(FALSE)
  \/ EmitOffline(FALSE, FALSE)
  \/ MqLoss
  \/ MqConnected
  \/ MqTick

\* emits with an ack callback
MqAckNext ==
  \/ \E kind \in ListenerKinds : OnConnected(kind)
  \/ EmitOpen(TRUE)
  \/ \E armed \in BOOLEAN : EmitOffline(TRUE, armed)
  \/ MqLoss
  \/ MqConnected
  \/ \E m \in 1..MaxMessages : MqTimerExpires(m)

\* ------------------------------------------------------------ heartbeat
HeartbeatMaxMissed == 3

HbInit ==
  /\ hbSent = 0
  /\ hbPending = FALSE
  /\ hbMissed = 0
  /\ hbHistory = <<>>
  /\ hbForced = {}

\* the setInterval callback: send HEARTBEAT, set the timeout for the response
HeartbeatSend ==
  /\ ~hbPending
  /\ hbSent < MaxHeartbeats
  /\ hbSent' = hbSent + 1
  /\ hbPending' = TRUE
  /\ UNCHANGED <<hbMissed, hbHistory, hbForced>>
  /\ UNCHANGED nonHbVars

\* a HEARTBEAT_ACK in time ends the run of misses
HbMissedAfterAck(missed) == 0

\* HEARTBEAT_ACK arrives before the timeout: the timeout is cleared
HeartbeatAck ==
  /\ hbPending
  /\ hbPending' = FALSE
  /\ hbMissed' = HbMissedAfterAck(hbMissed)
  /\ hbHistory' = Append(hbHistory, "ack")
  /\ UNCHANGED <<hbSent, hbForced>>
  /\ UNCHANGED nonHbVars

HeartbeatFailedOneLate(missed) == missed > HeartbeatMaxMissed

\* if (this.heartbeatMissed >= 3)
HeartbeatFailed(missed) == missed >= HeartbeatMaxMissed

\* the setTimeout callback: this.heartbeatMissed++, and disconnect() and
\* connect() once three were missed
HeartbeatTimeout ==
  /\ hbPending
  /\ hbPending' = FALSE
  /\ hbMissed' = hbMissed + 1
  /\ hbHistory' = Append(hbHistory, "miss")
  /\ hbForced' = IF HeartbeatFailed(hbMissed + 1)
                 THEN hbForced \cup {hbSent}
                 ELSE hbForced
  /\ UNCHANGED hbSent
  /\ UNCHANGED nonHbVars

HbNext ==
  \/ HeartbeatSend
  \/ HeartbeatAck
  \/ HeartbeatTimeout

\* ------------------------------------------------- connection timeout
NoProbe == 0 - 1

CtInit ==
  /\ ctNow = 0
  /\ ctLastActivity = 0
  /\ ctProbe = NoProbe
  /\ ctUnanswered = 0
  /\ ctClosed = FALSE

CtTick ==
  /\ ~ctClosed
  /\ ctNow < MaxIdleTime
  /\ ctNow' = ctNow + 1
  /\ UNCHANGED <<ctLastActivity, ctProbe, ctUnanswered, ctClosed>>
  /\ UNCHANGED nonCtVars

\* an inbound frame of the socket: activity
CtFrame ==
  /\ ~ctClosed
  /\ ctLastActivity' = ctNow
  /\ ctProbe' = NoProbe
  /\ ctUnanswered' = 0
  /\ UNCHANGED <<ctNow, ctClosed>>
  /\ UNCHANGED nonCtVars

\* 2. if no activity for connectionTimeout  3. server sends HEARTBEAT
CtProbe ==
  /\ ~ctClosed
  /\ ctProbe = NoProbe
  /\ ctNow - ctLastActivity >= ConnectionTimeout
  /\ ctProbe' = ctNow
  /\ UNCHANGED <<ctNow, ctLastActivity, ctUnanswered, ctClosed>>
  /\ UNCHANGED nonCtVars

\* the client answers the probe in time
CtProbeAck ==
  /\ ~ctClosed
  /\ ctProbe # NoProbe
  /\ ctNow - ctProbe < ProbeTimeout
  /\ ctProbe' = NoProbe
  /\ ctLastActivity' = ctNow
  /\ ctUnanswered' = 0
  /\ UNCHANGED <<ctNow, ctClosed>>
  /\ UNCHANGED nonCtVars

\* 4. if no HEARTBEAT_ACK within 5 seconds  5. connection dropped
CtProbeTimeout ==
  /\ ~ctClosed
  /\ ctProbe # NoProbe
  /\ ctNow - ctProbe >= ProbeTimeout
  /\ ctUnanswered' = ctUnanswered + 1
  /\ ctClosed' = TRUE
  /\ UNCHANGED <<ctNow, ctLastActivity, ctProbe>>
  /\ UNCHANGED nonCtVars

CtNext ==
  \/ CtTick
  \/ CtFrame
  \/ CtProbe
  \/ CtProbeAck
  \/ CtProbeTimeout

\* ------------------------------------------------------ outbound path
PlInit ==
  /\ plEmits = <<>>
  /\ plArrived = <<>>

\* server.to(room).emit(event, data): BinaryEncoder.encode(event, data) is
\* started; big says the payload is large enough to be compressed
PlEmit(big) ==
  /\ Len(plEmits) < MaxHandlerEmits
  /\ plEmits' = Append(plEmits, [big |-> big, stage |-> "encode"])
  /\ UNCHANGED plArrived
  /\ UNCHANGED nonPlVars

\* the emits whose encoding has not completed
Encoding == {i \in DOMAIN plEmits : plEmits[i].stage = "encode"}

\* .then(async message => ...): the encodings complete in the order they
\* were started; a payload to compress goes on to await deflateAsync(), any
\* other is written at once
PlEncoded(i) ==
  /\ i \in Encoding
  /\ \A k \in Encoding : i <= k
  /\ IF plEmits[i].big
     THEN /\ plEmits' = [plEmits EXCEPT ![i].stage = "deflate"]
          /\ UNCHANGED plArrived
     ELSE /\ plEmits' = [plEmits EXCEPT ![i].stage = "sent"]
          /\ plArrived' = Append(plArrived, i)
  /\ UNCHANGED nonPlVars

\* deflateAsync() completes: roomSockets.forEach(socket.ws.send)
PlDeflated(i) ==
  /\ i \in DOMAIN plEmits
  /\ plEmits[i].stage = "deflate"
  /\ plEmits' = [plEmits EXCEPT ![i].stage = "sent"]
  /\ plArrived' = Append(plArrived, i)
  /\ UNCHANGED nonPlVars

PlNext ==
  \/ \E big \in BOOLEAN : PlEmit(big)
  \/ \E i \in 1..MaxHandlerEmits : PlEncoded(i)
  \/ \E i \in 1..MaxHandlerEmits : PlDeflated(i)

\* ------------------------------------------------------------------ Next
BrokerNext ==
  \/ \E url \in Urls : Open(url)
  \/ \E s \in SocketIds : Close(s)
  \/ \E s \in SocketIds, r \in RoomIds : SocketJoin(s, r)
  \/ \E s \in SocketIds, r \in RoomIds : SocketLeave(s, r)
  \/ \E s \in SocketIds, ev \in QuizEvents, data \in FrameData :
        HandleMessage(s, ev, data)

\* ------------------------------------------------------------ binary codec
MaxPayloadLen == 3
CompressionThreshold == 1

\* Type Byte: 0x03 = EVENT, 0x04 = ACKNOWLEDGMENT
CodecTypes == {3, 4}

\* namespace paths and event names as UTF-8 bytes ("/", "/q"; "e", "ev")
CodecNamespaces == {<<47>>, <<47, 113>>}
CodecEvents == {<<101>>, <<101, 118>>}

\* a frame without ACK ID
NoAckId == 0 - 1

\* ack ids of one, two and three significant bytes
CodecAckIds == {NoAckId, 1, 300, 70000}

\* payload bytes of length 0..n
RECURSIVE Payloads(_)
Payloads(n) ==
  IF n = 0 THEN {<<>>}
  ELSE Payloads(n - 1)
         \cup {p \o <<b>> : p \in {q \in Payloads(n - 1) : Len(q) = n - 1},
                            b \in {0, 255}}

WellFormedFrames ==
  [type : CodecTypes, binary : BOOLEAN, namespace : CodecNamespaces,
   event : CodecEvents, ackId : CodecAckIds, payload : Payloads(MaxPayloadLen)]

NoWire == <<>>

CdInit ==
  /\ cdFrame = NoWire
  /\ cdWire = NoWire
  /\ cdDecoded = NoWire

\* Big-endian uint16 and uint32
U16(n) == <<(n \div 256) % 256, n % 256>>
U32(n) == <<(n \div 16777216) % 256, (n \div 65536) % 256, (n \div 256) % 256,
            n % 256>>
ReadU16(b, i) == b[i] * 256 + b[i + 1]
ReadU32(b, i) ==
  b[i] * 16777216 + b[i + 1] * 65536 + b[i + 2] * 256 + b[i + 3]

\* length of the run of equal bytes a payload starts with
RECURSIVE RunLength(_)
RunLength(p) ==
  IF Len(p) >= 2 /\ p[2] = p[1] /\ Len(p) <= 255
  THEN 1 + RunLength(Tail(p))
  ELSE 1

\* compression of a payload: (run length, byte) pairs
RECURSIVE Deflate(_)
Deflate(p) ==
  IF p = <<>> THEN <<>>
  ELSE <<RunLength(p), p[1]>> \o Deflate(SubSeq(p, RunLength(p) + 1, Len(p)))

RECURSIVE Inflate(_)
Inflate(c) ==
  IF Len(c) < 2 THEN <<>>
  ELSE [i \in 1..c[1] |-> c[2]] \o Inflate(SubSeq(c, 3, Len(c)))

\* the pre-shared key
EncryptionKey == 77

\* chained encipherment of p after the block prev
RECURSIVE Chain(_, _)
Chain(p, prev) ==
  IF p = <<>> THEN <<>>
  ELSE LET c == (p[1] + prev + EncryptionKey) % 256
       IN  <<c>> \o Chain(Tail(p), c)

\* the IV is prepended to the ciphertext
Encrypt(p, iv) == <<iv>> \o Chain(p, iv)

Decrypt(c) ==
  [i \in 1..(Len(c) - 1) |-> (c[i + 1] + 512 - c[i] - EncryptionKey) % 256]

\* payload on the wire: compression above the threshold, then encryption
Compresses(f, compression) ==
  compression /\ Len(f.payload) > CompressionThreshold

WirePayload(f, compression, encryption, iv) ==
  LET deflated == IF Compresses(f, compression) THEN Deflate(f.payload)
                  ELSE f.payload
  IN  IF encryption THEN Encrypt(deflated, iv) ELSE deflated

\* Flags Byte: bit 7 compression, bit 6 encryption, bit 5 acknowledgment,
\* bit 4 binary data
FlagsByte(compressed, encrypted, ack, binary) ==
  (IF compressed THEN 128 ELSE 0) + (IF encrypted THEN 64 ELSE 0)
    + (IF ack THEN 32 ELSE 0) + (IF binary THEN 16 ELSE 0)

FlagSet(flags, bit) == (flags \div bit) % 2 = 1

Encode(f, compression, encryption, iv) ==
  LET data == WirePayload(f, compression, encryption, iv)
  IN  <<1, f.type,
        FlagsByte(Compresses(f, compression), encryption, f.ackId # NoAckId,
                  f.binary)>>
        \o U16(Len(f.namespace)) \o f.namespace
        \o U16(Len(f.event)) \o f.event
        \o (IF f.ackId # NoAckId THEN U32(f.ackId) ELSE <<>>)
        \o U32(Len(data)) \o data

\* decode undoes compression first and encryption second
PlainPayloadInflateFirst(data, flags) ==
  LET inflated == IF FlagSet(flags, 128) THEN Inflate(data) ELSE data
  IN  IF FlagSet(flags, 64) THEN Decrypt(inflated) ELSE inflated

\* decode reverses encryption, then compression
PlainPayload(data, flags) ==
  LET decrypted == IF FlagSet(flags, 64) THEN Decrypt(data) ELSE data
  IN  IF FlagSet(flags, 128) THEN Inflate(decrypted) ELSE decrypted

Decode(b) ==
  IF Len(b) < 3 \/ b[1] # 1 THEN "frame_invalid"
  ELSE
    LET flags == b[3]
        nsLen == ReadU16(b, 4)
        evAt == 6 + nsLen
        evLen == ReadU16(b, evAt)
        ackAt == evAt + 2 + evLen
        hasAck == FlagSet(flags, 32)
        lenAt == IF hasAck THEN ackAt + 4 ELSE ackAt
        dataLen == ReadU32(b, lenAt)
        data == SubSeq(b, lenAt + 4, lenAt + 3 + dataLen)
    IN  [type |-> b[2],
         binary |-> FlagSet(flags, 16),
         namespace |-> SubSeq(b, 6, 5 + nsLen),
         event |-> SubSeq(b, evAt + 2, evAt + 1 + evLen),
         ackId |-> IF hasAck THEN ReadU32(b, ackAt) ELSE NoAckId,
         payload |-> PlainPayload(data, flags)]

\* encoder.encode(frame) under one configuration; one frame is followed
CodecEncode(f, compression, encryption, iv) ==
  /\ cdWire = NoWire
  /\ cdFrame' = f
  /\ cdWire' = Encode(f, compression, encryption, iv)
  /\ cdDecoded' = NoWire
  /\ UNCHANGED nonCdVars

\* decoder.decode(bytes) of the frame on the wire
CodecDecode ==
  /\ cdWire # NoWire
  /\ cdDecoded = NoWire
  /\ cdDecoded' = Decode(cdWire)
  /\ UNCHANGED <<cdFrame, cdWire>>
  /\ UNCHANGED nonCdVars

\* ------------------------------------------------- player-joined relay
PjInit ==
  /\ pjEmitted = {}
  /\ pjReceived = {}

\* a client of /quiz calls socket.emit('player-joined', data); the server runs
\* quizNS.on('player-joined') and the members of the room receive the frame
PlayerJoinedEmit(s, data) ==
  /\ s \in sockets
  /\ Route(sockNamespace[s], nsHandlers, sockHandlers[s], srvHandlers,
           "player-joined") = <<"namespace">>
  /\ HandleAutoBroadcast(s, "player-joined", data)
  /\ pjEmitted' = pjEmitted \cup {<<s, data.quizCode>>}
  /\ pjReceived' =
       pjReceived \cup
         {<<r, s, data.quizCode>> :
            r \in IF data.quizCode = NoCode THEN {}
                  ELSE ChainedTargets(nsRooms["/quiz"], data.quizCode)}
  /\ UNCHANGED <<nextSocketId, sockets, sockNamespace, nsSockets, handlerVars>>
  /\ UNCHANGED disconnectedFired
  /\ UNCHANGED nonBrokerPjVars

\* ------------------------------------------------- room broadcast fan-out
FoInit ==
  /\ foMembers = {}
  /\ foThrowing = {}
  /\ foPending = {}
  /\ foReceived = [s \in SocketIds |-> 0]
  /\ foErrors = 0
  /\ foRaised = FALSE
  /\ foDone = FALSE

\* a handler calls namespace.to(room).emit on a room with members
FanOutStart(members, throwing) ==
  /\ foMembers = {}
  /\ members # {}
  /\ throwing \subseteq members
  /\ foMembers' = members
  /\ foThrowing' = throwing
  /\ foPending' = members
  /\ UNCHANGED <<foReceived, foErrors, foRaised, foDone>>
  /\ UNCHANGED nonFoVars

\* an error thrown by socket.emit leaves the forEach
EmitErrorEscapesAlways(s) == TRUE

\* try { socket.emit(event, data) } catch (err) { errorCount++ }
EmitErrorEscapes(s) == FALSE

\* one iteration of roomSockets.forEach
FanOutVisit(s) ==
  /\ ~foDone
  /\ s \in foPending
  /\ IF s \in foThrowing
     THEN IF EmitErrorEscapes(s)
          THEN /\ foRaised' = TRUE
               /\ foDone' = TRUE
               /\ foPending' = {}
               /\ UNCHANGED <<foReceived, foErrors>>
          ELSE /\ foErrors' = foErrors + 1
               /\ foPending' = foPending \ {s}
               /\ UNCHANGED <<foReceived, foRaised, foDone>>
     ELSE /\ foReceived' = [foReceived EXCEPT ![s] = @ + 1]
          /\ foPending' = foPending \ {s}
          /\ UNCHANGED <<foErrors, foRaised, foDone>>
  /\ UNCHANGED <<foMembers, foThrowing>>
  /\ UNCHANGED nonFoVars

\* forEach has visited every member: emit returns to the handler
FanOutReturn ==
  /\ foMembers # {}
  /\ ~foDone
  /\ foPending = {}
  /\ foDone' = TRUE
  /\ UNCHANGED <<foMembers, foThrowing, foPending, foReceived, foErrors,
                 foRaised>>
  /\ UNCHANGED nonFoVars

\* ------------------------------------------------------- connection pool
PoolSize == 2
MaxPoolSize == 4
MaxGrowths == 4

\* Growth: 50% increase when needed (poolGrowthRate), in percent
PoolGrowthRate == 50

\* Initial: poolSize connections, all available
PoolInit ==
  /\ poolAvailable = PoolSize
  /\ poolInUse = 0
  /\ poolGrowths = 0
  /\ poolLast = "none"

\* acquireConnection(): pop an available connection, else create one while
\* inUse.length < maxPoolSize, else throw ERR_CONN_005; the connection handed
\* out is in use
AcquireConnection ==
  /\ IF poolAvailable > 0
     THEN /\ poolAvailable' = poolAvailable - 1
          /\ poolInUse' = poolInUse + 1
          /\ poolLast' = "acquire"
     ELSE IF poolInUse < MaxPoolSize
          THEN /\ poolInUse' = poolInUse + 1
               /\ poolLast' = "acquire"
               /\ UNCHANGED poolAvailable
          ELSE /\ poolLast' = "exhausted"
               /\ UNCHANGED <<poolAvailable, poolInUse>>
  /\ UNCHANGED poolGrowths
  /\ UNCHANGED nonPoolVars

\* releaseConnection(conn): back to available below poolSize, else closed
ReleaseConnection ==
  /\ poolInUse > 0
  /\ poolInUse' = poolInUse - 1
  /\ poolAvailable' = IF poolAvailable < PoolSize THEN poolAvailable + 1
                      ELSE poolAvailable
  /\ poolLast' = "release"
  /\ UNCHANGED poolGrowths
  /\ UNCHANGED nonPoolVars

\* growPool(): Math.floor(poolSize * poolGrowthRate) new available connections
Growth == (PoolSize * PoolGrowthRate) \div 100

GrowPool ==
  /\ poolGrowths < MaxGrowths
  /\ poolGrowths' = poolGrowths + 1
  /\ poolAvailable' = poolAvailable + Growth
  /\ poolLast' = "grow"
  /\ UNCHANGED poolInUse
  /\ UNCHANGED nonPoolVars

\* ------------------------------------------------------- client lifecycle
MaxClientLosses == 3

NoTimers == [a \in 0..MaxReconnectAttempts |-> 0]

PendingReconnects == 
  LET RECURSIVE Sum(_)
      Sum(a) == IF a < 0 THEN 0 ELSE clTimers[a] + Sum(a - 1)
  IN  Sum(MaxReconnectAttempts)

ClInit ==
  /\ clState = "idle"
  /\ clUserClosed = FALSE
  /\ clTimers = NoTimers
  /\ clIntervals = 0
  /\ clTimeouts = 0
  /\ clLosses = 0

\* reconnect(attempt): return at maxReconnectAttempts, else setTimeout(...);
\* the handle setTimeout returns is not kept
ScheduleReconnect(timers, attempt) ==
  IF GivesUp(attempt) THEN timers
  ELSE [timers EXCEPT ![attempt] = @ + 1]

\* client.connect() called by the application while the client is not open
ClientConnect ==
  /\ clState # "open"
  /\ clState' = "open"
  /\ clUserClosed' = FALSE
  /\ clIntervals' = clIntervals + 1
  /\ UNCHANGED <<clTimers, clTimeouts, clLosses>>
  /\ UNCHANGED nonClVars

\* client.disconnect() called by the application: the socket is closed and
\* its heartbeat timers are cancelled
ClientDisconnect ==
  /\ clState \in {"open", "lost"}
  /\ clState' = "closed"
  /\ clUserClosed' = TRUE
  /\ clIntervals' = 0
  /\ clTimeouts' = 0
  /\ UNCHANGED <<clTimers, clLosses>>
  /\ UNCHANGED nonClVars

\* the transport is lost while the user has not requested close: the heartbeat
\* timers are cancelled and reconnect(0) runs
ClientTransportLoss ==
  /\ clState = "open"
  /\ clLosses < MaxClientLosses
  /\ clLosses' = clLosses + 1
  /\ clState' = "lost"
  /\ clIntervals' = 0
  /\ clTimeouts' = 0
  /\ clTimers' = ScheduleReconnect(clTimers, 0)
  /\ UNCHANGED clUserClosed
  /\ UNCHANGED nonClVars

\* the setTimeout callback of reconnect(attempt): this.connect(), then
\* 'reconnected' on success and reconnect(attempt + 1) on failure
ReconnectTimerFires(attempt, ok) ==
  /\ clTimers[attempt] > 0
  /\ IF clState = "open"
     THEN /\ clTimers' = [clTimers EXCEPT ![attempt] = @ - 1]
          /\ UNCHANGED <<clState, clIntervals>>
     ELSE IF ok
          THEN /\ clTimers' = [clTimers EXCEPT ![attempt] = @ - 1]
               /\ clState' = "open"
               /\ clIntervals' = clIntervals + 1
          ELSE /\ clTimers' = ScheduleReconnect(
                                [clTimers EXCEPT ![attempt] = @ - 1], attempt + 1)
               /\ UNCHANGED <<clState, clIntervals>>
  /\ UNCHANGED <<clUserClosed, clTimeouts, clLosses>>
  /\ UNCHANGED nonClVars

\* the setInterval callback of startHeartbeat: send HEARTBEAT, set the timeout
ClientHeartbeat ==
  /\ clIntervals > 0
  /\ clTimeouts = 0
  /\ clTimeouts' = clTimeouts + clIntervals
  /\ UNCHANGED <<clState, clUserClosed, clTimers, clIntervals, clLosses>>
  /\ UNCHANGED nonClVars

\* HEARTBEAT_ACK in time, or a timeout that only counts a miss
ClientHeartbeatOver ==
  /\ clTimeouts > 0
  /\ clTimeouts' = clTimeouts - 1
  /\ UNCHANGED <<clState, clUserClosed, clTimers, clIntervals, clLosses>>
  /\ UNCHANGED nonClVars

\* the timeout of the third missed heartbeat: this.disconnect(); this.connect()
ClientHeartbeatFailed ==
  /\ clTimeouts > 0
  /\ clState' = "open"
  /\ clUserClosed' = FALSE
  /\ clIntervals' = 1
  /\ clTimeouts' = 0
  /\ UNCHANGED <<clTimers, clLosses>>
  /\ UNCHANGED nonClVars

\* ------------------------------------------------- quiz-started relay
\* quizNS.on('quiz-started'): if (!data.quizCode) return;
\*   quizNS.to(data.quizCode).emit('quiz-started', data)
HandleQuizStarted(s, data) ==
  /\ s \in nsSockets["/quiz"]
  /\ IF data.quizCode = NoCode
     THEN last' = Quiet
     ELSE last' = [Idle("broadcast") EXCEPT
                     !.ns = "/quiz", !.room = data.quizCode, !.from = s,
                     !.ev = "quiz-started",
                     !.snap = MapGet(nsRooms["/quiz"], data.quizCode),
                     !.recv = SendTo(ChainedTargets(nsRooms["/quiz"],
                                                    data.quizCode))]
  /\ nsRooms' = ToNsRooms("/quiz", data.quizCode)
  /\ UNCHANGED <<nextSocketId, sockets, sockNamespace, sockRooms, nsSockets,
                 srvRooms, emitter, handlerVars>>
  /\ UNCHANGED disconnectedFired
  /\ UNCHANGED nonBrokerVars

\* ------------------------------------------------- corrected quiz server
MaxQuizSockets == 2
MaxQuizCodes == 1
MaxJoins == 2
MaxStarts == 1
MaxSubmits == 1
MaxTwinFrames == 3

QuizSockets == 1..MaxQuizSockets
QuizCodes == 1..MaxQuizCodes
\* socket.data.quizCode is undefined (0) until 'player-joined'
QuizKeys == {NoCode} \cup QuizCodes
PlayerIds == {1, 2}
Answers == {1, 2}
NoQuestion == 0

\* quizRooms.get(quizCode), before getOrCreateRoom made it
NoRoom == [exists |-> FALSE, players |-> <<>>, correctAnswer |-> NoQuestion]

QuizStart ==
  [open |-> {},
   data |-> [s \in QuizSockets |-> [quizCode |-> NoCode, playerId |-> 0]],
   members |-> [k \in QuizKeys |-> {}],
   rooms |-> [k \in QuizKeys |-> NoRoom],
   frames |-> <<>>,
   op |-> "none", from |-> 0, opened |-> 0, joins |-> 0, starts |-> 0,
   submits |-> 0]

QuizInit ==
  /\ quiz = QuizStart
  /\ quizTwin = QuizStart

\* getOrCreateRoom(quizCode)
GetOrCreateRoom(rooms, k) ==
  IF rooms[k].exists THEN rooms ELSE [rooms EXCEPT ![k].exists = TRUE]

\* a socket connects to /quiz
QuizConnected(q, s) ==
  [q EXCEPT !.open = @ \cup {s}, !.frames = <<>>, !.op = "open", !.from = s,
            !.opened = s]

\* quizNS.on('player-joined'): store socket.data, socket.join(quizCode), push
\* the player, broadcast to the room, ack the sender
QuizPlayerJoined(q, s, code, pid) ==
  LET members == [q.members EXCEPT ![code] = @ \cup {s}]
      created == GetOrCreateRoom(q.rooms, code)
      players == Append(created[code].players,
                        [id |-> pid, socketId |-> s, score |-> 0])
  IN  [q EXCEPT
         !.data[s] = [quizCode |-> code, playerId |-> pid],
         !.members = members,
         !.rooms = [created EXCEPT ![code].players = players],
         !.frames = << [to |-> members[code], event |-> "player-joined",
                        body |-> [playerId |-> pid,
                                  totalPlayers |-> Len(players),
                                  players |-> [i \in DOMAIN players |->
                                                 <<players[i].id,
                                                   players[i].score>>]]],
                       [to |-> {s}, event |-> "ack",
                        body |-> [success |-> TRUE]] >>,
         !.op = "player-joined", !.from = s, !.joins = @ + 1]

\* the body of 'new-question' with the answer left in
NewQuestionWithAnswer(question) ==
  [questionId |-> question.id, timeLimit |-> question.timeLimit,
   correctAnswer |-> question.correctAnswer]

\* the body of 'new-question': questionId, text, options, timeLimit
NewQuestion(question) ==
  [questionId |-> question.id, timeLimit |-> question.timeLimit]

\* quizNS.on('start-quiz')
QuizStartQuiz(q, s, correctAnswer) ==
  LET code == q.data[s].quizCode
      created == GetOrCreateRoom(q.rooms, code)
      question == [id |-> 1, correctAnswer |-> correctAnswer, timeLimit |-> 30]
  IN  [q EXCEPT
         !.rooms = [created EXCEPT ![code].correctAnswer = correctAnswer],
         !.frames = << [to |-> q.members[code], event |-> "new-question",
                        body |-> NewQuestion(question)],
                       [to |-> {s}, event |-> "ack",
                        body |-> [success |-> TRUE]] >>,
         !.op = "start-quiz", !.from = s, !.starts = @ + 1]

\* room.players.find(p => p.id === playerId), playerId read from the frame
FindPlayer(players, pid) ==
  {i \in DOMAIN players : players[i].id = pid}

\* Array.prototype.find: the first match
First(indexes) == CHOOSE i \in indexes : \A j \in indexes : i <= j

\* room.players.sort((a, b) => b.score - a.score), stable and in place
RECURSIVE InsertByScore(_, _)
InsertByScore(p, sorted) ==
  IF sorted = <<>> THEN <<p>>
  ELSE IF Head(sorted).score >= p.score
       THEN <<Head(sorted)>> \o InsertByScore(p, Tail(sorted))
       ELSE <<p>> \o sorted

RECURSIVE SortByScore(_)
SortByScore(players) ==
  IF players = <<>> THEN <<>>
  ELSE InsertByScore(players[Len(players)],
                     SortByScore(SubSeq(players, 1, Len(players) - 1)))

\* quizNS.on('submit-answer')
QuizSubmitAnswer(q, s, pid, answer) ==
  LET code == q.data[s].quizCode
      created == GetOrCreateRoom(q.rooms, code)
      room == created[code]
      isCorrect == room.correctAnswer # NoQuestion /\ answer = room.correctAnswer
      score == IF isCorrect THEN 10 ELSE 0
      found == FindPlayer(room.players, pid)
      scored == IF found = {} THEN room.players
                ELSE [room.players EXCEPT ![First(found)].score = @ + score]
      sorted == SortByScore(scored)
  IN  [q EXCEPT
         !.rooms = [created EXCEPT ![code].players = sorted],
         !.frames = << [to |-> {s}, event |-> "answer-result",
                        body |-> [correct |-> isCorrect, earnedScore |-> score]],
                       [to |-> q.members[code], event |-> "leaderboard-updated",
                        body |-> [leaderboard |->
                                    [i \in DOMAIN sorted |->
                                       <<i, sorted[i].score,
                                         sorted[i].id = pid>>],
                                  currentScore |->
                                    IF found = {} THEN 0
                                    ELSE scored[First(found)].score]],
                       [to |-> {s}, event |-> "ack",
                        body |-> [success |-> TRUE]] >>,
         !.op = "submit-answer", !.from = s, !.submits = @ + 1]

\* room.players.filter(p => p.socketId !== socket.id)
RECURSIVE WithoutSocket(_, _)
WithoutSocket(players, s) ==
  IF players = <<>> THEN <<>>
  ELSE IF Head(players).socketId = s THEN WithoutSocket(Tail(players), s)
       ELSE <<Head(players)>> \o WithoutSocket(Tail(players), s)

\* the socket closes: the runtime takes it out of every room it joined, then
\* quizNS.on('disconnected') runs
QuizDisconnected(q, s) ==
  LET code == q.data[s].quizCode
      created == GetOrCreateRoom(q.rooms, code)
      members == [k \in QuizKeys |-> q.members[k] \ {s}]
      players == WithoutSocket(created[code].players, s)
  IN  IF code # NoCode
      THEN [q EXCEPT
              !.open = @ \ {s},
              !.members = members,
              !.rooms = [created EXCEPT ![code].players = players],
              !.frames = << [to |-> members[code], event |-> "player-left",
                             body |-> [remainingPlayers |-> Len(players)]] >>,
              !.op = "disconnected", !.from = s]
      ELSE [q EXCEPT
              !.open = @ \ {s},
              !.members = members,
              !.rooms = created,
              !.frames = <<>>,
              !.op = "disconnected", !.from = s]

\* frames handled by the server so far
QuizHandled(q) == q.joins + q.starts + q.submits

QuizOpen(s) ==
  /\ s = quiz.opened + 1
  /\ quiz' = QuizConnected(quiz, s)
  /\ UNCHANGED quizTwin
  /\ UNCHANGED nonQuizVars

PlayerJoined(s, code, pid) ==
  /\ s \in quiz.open
  /\ quiz.joins < MaxJoins
  /\ quiz' = QuizPlayerJoined(quiz, s, code, pid)
  /\ UNCHANGED quizTwin
  /\ UNCHANGED nonQuizVars

StartQuiz(s, correctAnswer) ==
  /\ s \in quiz.open
  /\ quiz.starts < MaxStarts
  /\ quiz' = QuizStartQuiz(quiz, s, correctAnswer)
  /\ UNCHANGED quizTwin
  /\ UNCHANGED nonQuizVars

SubmitAnswer(s, pid, answer) ==
  /\ s \in quiz.open
  /\ quiz.submits < MaxSubmits
  /\ quiz' = QuizSubmitAnswer(quiz, s, pid, answer)
  /\ UNCHANGED quizTwin
  /\ UNCHANGED nonQuizVars

Disconnected(s) ==
  /\ s \in quiz.open
  /\ quiz' = QuizDisconnected(quiz, s)
  /\ UNCHANGED quizTwin
  /\ UNCHANGED nonQuizVars

\* two runs of the server receive the same frames; only correctAnswer differs
TwinOpen(s) ==
  /\ s = quiz.opened + 1
  /\ quiz' = QuizConnected(quiz, s)
  /\ quizTwin' = QuizConnected(quizTwin, s)
  /\ UNCHANGED nonQuizVars

TwinPlayerJoined(s, code, pid) ==
  /\ s \in quiz.open
  /\ QuizHandled(quiz) < MaxTwinFrames
  /\ quiz' = QuizPlayerJoined(quiz, s, code, pid)
  /\ quizTwin' = QuizPlayerJoined(quizTwin, s, code, pid)
  /\ UNCHANGED nonQuizVars

TwinStartQuiz(s, correctAnswer, twinAnswer) ==
  /\ s \in quiz.open
  /\ QuizHandled(quiz) < MaxTwinFrames
  /\ quiz' = QuizStartQuiz(quiz, s, correctAnswer)
  /\ quizTwin' = QuizStartQuiz(quizTwin, s, twinAnswer)
  /\ UNCHANGED nonQuizVars

TwinSubmitAnswer(s, pid, answer) ==
  /\ s \in quiz.open
  /\ QuizHandled(quiz) < MaxTwinFrames
  /\ quiz' = QuizSubmitAnswer(quiz, s, pid, answer)
  /\ quizTwin' = QuizSubmitAnswer(quizTwin, s, pid, answer)
  /\ UNCHANGED nonQuizVars

TwinDisconnected(s) ==
  /\ s \in quiz.open
  /\ quiz' = QuizDisconnected(quiz, s)
  /\ quizTwin' = QuizDisconnected(quizTwin, s)
  /\ UNCHANGED nonQuizVars

Init == BrokerInit /\ RateInit /\ AckInit /\ IdInit /\ MwInit /\ RcInit
        /\ MqInit /\ HbInit /\ CtInit /\ PlInit /\ ThInit
        /\ UrlInit
        /\ CdInit
        /\ PjInit
        /\ FoInit
        /\ PoolInit
        /\ ClInit
        /\ QuizInit

Next == BrokerNext

Spec == Init /\ [][Next]_vars

\* ------------------------------------------------------ room bookkeeping
\* upgrade requests for the root namespace, a registered namespace and a
\* path no namespace is registered for
RoomUrls == { <<"/">>, <<"/quiz">>, <<"/nope">> }

RoomsNext ==
  \/ \E url \in RoomUrls : Open(url)
  \/ \E s \in SocketIds : Close(s)
  \/ \E s \in SocketIds, r \in RoomIds : SocketJoin(s, r)
  \/ \E s \in SocketIds, r \in RoomIds : SocketLeave(s, r)
  \/ \E s \in SocketIds, ev \in QuizEvents, data \in FrameData :
        HandleMessage(s, ev, data)

SpecRooms == Init /\ [][RoomsNext]_vars

\* ------------------------------------------------------- codec round trip
InitVectors == {0, 200}

CodecNext ==
  \/ /\ cdWire = NoWire
     /\ \E f \in WellFormedFrames, compression \in BOOLEAN,
           encryption \in BOOLEAN, iv \in InitVectors :
          CodecEncode(f, compression, encryption, iv)
  \/ CodecDecode

SpecCodec == Init /\ [][CodecNext]_vars

\* --------------------------------------------- player-joined relay test
\* clients connect to /quiz and emit 'player-joined', nothing else
PlayerJoinedNext ==
  \/ Open(<<"/quiz">>)
  \/ \E s \in SocketIds, data \in FrameData : PlayerJoinedEmit(s, data)

SpecPlayerJoined == Init /\ [][PlayerJoinedNext]_vars

\* ------------------------------------------------- room broadcast fan-out
FanOutNext ==
  \/ \E members \in SUBSET SocketIds, throwing \in SUBSET SocketIds :
        FanOutStart(members, throwing)
  \/ \E s \in SocketIds : FanOutVisit(s)
  \/ FanOutReturn

SpecFanOut == Init /\ [][FanOutNext]_vars

\* ------------------------------------------------------- connection pool
PoolNext ==
  \/ AcquireConnection
  \/ ReleaseConnection
  \/ GrowPool

SpecPool == Init /\ [][PoolNext]_vars

\* ------------------------------------------------------- client lifecycle
ClientNext ==
  \/ ClientConnect
  \/ ClientDisconnect
  \/ ClientTransportLoss
  \/ \E attempt \in 0..(MaxReconnectAttempts - 1), ok \in BOOLEAN :
        ReconnectTimerFires(attempt, ok)
  \/ ClientHeartbeat
  \/ ClientHeartbeatOver
  \/ ClientHeartbeatFailed

SpecClient == Init /\ [][ClientNext]_vars

\* ------------------------------------------------- quiz-started relay
QuizStartedNext ==
  \/ Open(<<"/quiz">>)
  \/ \E s \in SocketIds, ev \in JoinEvents, data \in FrameData :
        HandleMessage(s, ev, data)
  \/ \E s \in SocketIds, data \in FrameData : HandleQuizStarted(s, data)
  \/ \E s \in SocketIds : Close(s)

SpecQuizStarted == Init /\ [][QuizStartedNext]_vars

\* ------------------------------------------------- corrected quiz server
QuizNext ==
  \/ \E s \in QuizSockets : QuizOpen(s)
  \/ \E s \in QuizSockets, code \in QuizCodes, pid \in PlayerIds :
        PlayerJoined(s, code, pid)
  \/ \E s \in QuizSockets, correctAnswer \in Answers :
        StartQuiz(s, correctAnswer)
  \/ \E s \in QuizSockets, pid \in PlayerIds, answer \in Answers :
        SubmitAnswer(s, pid, answer)
  \/ \E s \in QuizSockets : Disconnected(s)

SpecQuiz == Init /\ [][QuizNext]_vars

\* every player joins quiz 1 and answers under the id it joined with
TwinNext ==
  \/ \E s \in QuizSockets : TwinOpen(s)
  \/ \E s \in QuizSockets : TwinPlayerJoined(s, 1, 1)
  \/ \E s \in QuizSockets, correctAnswer \in Answers, twinAnswer \in Answers :
        TwinStartQuiz(s, correctAnswer, twinAnswer)
  \/ \E s \in QuizSockets, answer \in Answers : TwinSubmitAnswer(s, 1, answer)
  \/ \E s \in QuizSockets : TwinDisconnected(s)

SpecQuizTwin == Init /\ [][TwinNext]_vars

\* ------------------------------------------------- handler registration
\* an application event whose handlers the model treats as opaque
RouterEvents == {"message"}

\* namespace.on(event, handler)
NsOn(n, ev) ==
  /\ ev \notin nsHandlers[n]
  /\ nsHandlers' = [nsHandlers EXCEPT ![n] = @ \cup {ev}]
  /\ last' = Quiet
  /\ UNCHANGED <<nextSocketId, sockets, sockNamespace, sockRooms, nsSockets,
                 nsRooms, srvRooms, emitter, sockHandlers, srvHandlers>>
  /\ UNCHANGED disconnectedFired
  /\ UNCHANGED nonBrokerVars

\* socket.on(event, handler)
SocketOn(s, ev) ==
  /\ s \in sockets
  /\ ev \notin sockHandlers[s]
  /\ sockHandlers' = [sockHandlers EXCEPT ![s] = @ \cup {ev}]
  /\ last' = Quiet
  /\ UNCHANGED <<nextSocketId, sockets, sockNamespace, sockRooms, nsSockets,
                 nsRooms, srvRooms, emitter, nsHandlers, srvHandlers>>
  /\ UNCHANGED disconnectedFired
  /\ UNCHANGED nonBrokerVars

\* server.on(event, handler)
ServerOn(ev) ==
  /\ ev \notin srvHandlers
  /\ srvHandlers' = srvHandlers \cup {ev}
  /\ last' = Quiet
  /\ UNCHANGED <<nextSocketId, sockets, sockNamespace, sockRooms, nsSockets,
                 nsRooms, srvRooms, emitter, nsHandlers, sockHandlers>>
  /\ UNCHANGED disconnectedFired
  /\ UNCHANGED nonBrokerVars

\* an inbound frame of an application event: the router runs its handlers
Dispatch(s, ev) ==
  /\ s \in sockets
  /\ last' = [Idle("dispatch") EXCEPT
                !.from = s, !.ev = ev,
                !.ran = Route(sockNamespace[s], nsHandlers, sockHandlers[s],
                              srvHandlers, ev)]
  /\ UNCHANGED <<nextSocketId, sockets, sockNamespace, sockRooms, nsSockets,
                 nsRooms, srvRooms, emitter, handlerVars>>
  /\ UNCHANGED disconnectedFired
  /\ UNCHANGED nonBrokerVars

\* the arguments the router calls a handler with:
\*   namespace.handlers[event](socket, data); socket.handlers[event](data);
\*   this.handlers[event](socket, data)
HandlerArgs(level) ==
  IF level = "socket" THEN <<"data">> ELSE <<"socket", "data">>

\* whether the handler is given an ack function
AckPassed(level) == \E k \in DOMAIN HandlerArgs(level) : HandlerArgs(level)[k] = "ack"

\* ACK frames sent when the handler calls its third argument `calls` times:
\* a one-shot function when the router passed one, else nothing is sent
AckFramesSent(level, calls) ==
  IF AckPassed(level) /\ calls >= 1 THEN 1 ELSE 0

\* an inbound frame carrying ACK_REQUESTED and ack-id i; the handler it
\* reaches calls ack(...) `calls` times
DispatchAck(s, ev, i, calls) ==
  /\ s \in sockets
  /\ LET ran == Route(sockNamespace[s], nsHandlers, sockHandlers[s],
                      srvHandlers, ev)
     IN last' = [Idle("dispatch-ack") EXCEPT
                   !.from = s, !.ev = ev, !.ran = ran, !.ackId = i,
                   !.calls = calls,
                   !.acks = IF ran = <<>> THEN 0
                            ELSE AckFramesSent(Head(ran), calls)]
  /\ UNCHANGED <<nextSocketId, sockets, sockNamespace, sockRooms, nsSockets,
                 nsRooms, srvRooms, emitter, handlerVars>>
  /\ UNCHANGED disconnectedFired
  /\ UNCHANGED nonBrokerVars

RouterNext ==
  \/ \E url \in Urls : Open(url)
  \/ \E s \in SocketIds : Close(s)
  \/ \E n \in Namespaces, ev \in RouterEvents : NsOn(n, ev)
  \/ \E s \in SocketIds, ev \in RouterEvents : SocketOn(s, ev)
  \/ \E ev \in RouterEvents : ServerOn(ev)
  \/ \E s \in SocketIds, ev \in RouterEvents : Dispatch(s, ev)

SpecRouter == Init /\ [][RouterNext]_vars

\* the router receiving frames that ask for an acknowledgement
AckRouterNext ==
  \/ \E url \in Urls : Open(url)
  \/ \E n \in Namespaces, ev \in RouterEvents : NsOn(n, ev)
  \/ \E s \in SocketIds, ev \in RouterEvents : SocketOn(s, ev)
  \/ \E ev \in RouterEvents : ServerOn(ev)
  \/ \E s \in SocketIds, ev \in RouterEvents, i \in 1..MaxAcks,
        calls \in 0..MaxAckCalls : DispatchAck(s, ev, i, calls)

SpecAckRouter == Init /\ [][AckRouterNext]_vars

\* the same server where handlers keep the object returned by
\* namespace.to(room) and call its emit later
EmitterNext ==
  \/ \E url \in Urls : Open(url)
  \/ \E s \in SocketIds : Close(s)
  \/ \E s \in SocketIds, r \in RoomIds : SocketJoin(s, r)
  \/ \E s \in SocketIds, r \in RoomIds : SocketLeave(s, r)
  \/ \E n \in Namespaces, r \in RoomIds : NsTo(n, r)
  \/ EmitterEmit

SpecEmitter == Init /\ [][EmitterNext]_vars

\* the same server where application code broadcasts to a namespace and
\* sends to one socket through server.to(socket.id)
BroadcastNext ==
  \/ \E url \in Urls : Open(url)
  \/ \E s \in SocketIds : Close(s)
  \/ \E s \in SocketIds, r \in RoomIds : SocketJoin(s, r)
  \/ \E s \in SocketIds, r \in RoomIds : SocketLeave(s, r)
  \/ \E n \in Namespaces : NamespaceEmit(n)
  \/ \E id \in SocketIds : ServerToEmit(id)

SpecBroadcast == Init /\ [][BroadcastNext]_vars

\* the server where application code broadcasts to a namespace, with sockets
\* of every namespace coming, joining rooms and going
NamespaceEmitNext ==
  \/ \E url \in Urls : Open(url)
  \/ \E s \in SocketIds : Close(s)
  \/ \E s \in SocketIds, r \in RoomIds : SocketJoin(s, r)
  \/ \E n \in Namespaces : NamespaceEmit(n)

SpecNamespaceEmit == Init /\ [][NamespaceEmitNext]_vars

\* the same server where clients ask for the player count of a room
PlayersNext ==
  \/ \E url \in Urls : Open(url)
  \/ \E s \in SocketIds : Close(s)
  \/ \E s \in SocketIds, r \in RoomIds : SocketJoin(s, r)
  \/ \E s \in SocketIds, r \in RoomIds : SocketLeave(s, r)
  \/ \E s \in SocketIds, ev \in PlayersEvents, data \in FrameData :
        GetPlayers(s, ev, data)

SpecPlayers == Init /\ [][PlayersNext]_vars

SpecRate == Init /\ [][RateNext]_vars

SpecAckIds == Init /\ [][IdNext]_vars

SpecMiddleware == Init /\ [][MwNext]_vars

SpecReconnect == Init /\ [][RcNext]_vars

SpecQueue == Init /\ [][MqNext]_vars

SpecQueueAck == Init /\ [][MqAckNext]_vars

SpecHeartbeat == Init /\ [][HbNext]_vars

SpecConnectionTimeout == Init /\ [][CtNext]_vars

SpecOutbound == Init /\ [][PlNext]_vars

\* the client connects with the URL it built: open() on the server
ClientOpen ==
  /\ urlConnect # <<>>
  /\ Open(RequestUrl(urlConnect))

UrlNext ==
  \/ \E base \in BaseUrls, ns \in ClientNamespaces : ClientBuild(base, ns)
  \/ ClientOpen

SpecUrl == Init /\ [][UrlNext]_vars

\* frames with and without data sent by the clients of the quiz namespace
ThrowNext ==
  \/ Open(<<"/quiz">>)
  \/ \E s \in SocketIds, ev \in QuizEvents, data \in FrameData :
        HandleMessage(s, ev, data)
  \/ \E s \in SocketIds, ev \in QuizEvents : HandlerThrows(s, ev)

SpecThrow == Init /\ [][ThrowNext]_vars

SpecAck == Init /\ [][AckNext]_vars /\ \A i \in AckIds : WF_vars(TimerFires(i))

\* ---------------------------------------------------------------- claims
\* the sockets of /quiz that joined room r, read from the sockets' own rooms
QuizMembers(r) ==
  {s \in sockets : sockNamespace[s] = "/quiz" /\ r \in sockRooms[s]}

\* C1: for every socket S and room R, R is in S.rooms exactly when S is in
\* the member set that the room index of S's namespace holds for R
RoomIndexConsistent ==
  \A s \in SocketIds, r \in RoomIds :
    (r \in sockRooms[s]) <=>
      (MapHas(nsRooms[sockNamespace[s]], r) /\ s \in nsRooms[sockNamespace[s]][r])

\* a socket has been closed while another one is still member of a room
RoomIndexWitness ==
  /\ \E s \in SocketIds : s < nextSocketId /\ s \notin sockets
  /\ \E t \in sockets : sockRooms[t] # {}
  /\ \E t \in sockets : sockRooms[t] = {}

\* C3: namespace.to(R).emit delivers one frame to each socket that was a
\* member of R when to(R) looked the room up (and is still connected), and to
\* no other socket
SnapshotDelivery ==
  last.op = "to.emit" => last.recv = SendTo(last.snap \cap sockets)

\* C4: the server never holds more than maxConnections sockets
MaxConnectionsRespected == Cardinality(sockets) <= MaxConnections

\* C6: for an inbound frame on a socket bound to namespace N at most one
\* handler runs: the one of N, else the socket's, else the server's, else none
RoutingOrder ==
  last.op = "dispatch" =>
    LET s == last.from
        ev == last.ev
        onNs == ev \in nsHandlers[sockNamespace[s]]
        onSock == ev \in sockHandlers[s]
        onSrv == ev \in srvHandlers
    IN /\ Len(last.ran) <= 1
       /\ onNs => last.ran = <<"namespace">>
       /\ (~onNs /\ onSock) => last.ran = <<"socket">>
       /\ (~onNs /\ ~onSock /\ onSrv) => last.ran = <<"server">>
       /\ (~onNs /\ ~onSock /\ ~onSrv) => last.ran = <<>>

\* a frame on a socket of the root namespace, the event having a handler at
\* all three levels, went to the namespace's handler
RoutingOrderWitness ==
  /\ last.op = "dispatch"
  /\ sockNamespace[last.from] = RootNs
  /\ last.ev \in nsHandlers[RootNs]
  /\ last.ev \in sockHandlers[last.from]
  /\ last.ev \in srvHandlers
  /\ last.ran = <<"namespace">>

\* C7: a room broadcast made by a handler delivers exactly one frame to every
\* socket that joined the room, the sender included, and none to the others
RoomBroadcastExact ==
  last.op \in {"broadcast", "join+broadcast"} =>
    \A s \in SocketIds :
      last.recv[s] = IF s \in QuizMembers(last.room) THEN 1 ELSE 0

\* three sockets joined the room and one of them broadcast to it
RoomBroadcastWitness ==
  /\ last.op = "broadcast"
  /\ Cardinality(QuizMembers(last.room)) = 3
  /\ last.from \in QuizMembers(last.room)
  /\ \A s \in QuizMembers(last.room) : last.recv[s] = 1

OneNamespacePerSocket ==
  /\ \A s \in sockets :
       /\ sockNamespace[s] \in Namespaces
       /\ \A n \in Namespaces : (s \in nsSockets[n]) <=> (n = sockNamespace[s])
  /\ (last.op = "open" /\ last.ns \notin Namespaces) => last.from \notin sockets

\* C10: server.to(id).emit with id the id of a connected socket delivers one
\* frame to that socket and none to any other
UnicastExact ==
  (last.op = "server.to" /\ last.room \in sockets) =>
    last.recv = SendTo({last.room})

\* requests admitted with a timestamp in the interval [from, to]
RECURSIVE AdmittedIn(_, _)
AdmittedIn(from, to) ==
  IF from > to THEN 0 ELSE rlAdmitted[from] + AdmittedIn(from + 1, to)

\* C5: in every interval of length window, its two ends included, the limiter
\* has admitted at most max requests.
WindowAdmitsAtMostMax ==
  \A t \in 0..(MaxTime - RateWindow) :
    AdmittedIn(t, t + RateWindow) <= RateMaxRequests

AckCalls(i) == ackResponses[i] + ackTimeouts[i]

\* C2: the callback of every emit made with an ack callback is invoked at most
\* once, with the response or with the timeout error and never both, and once
\* the outstanding-ack table no longer holds its entry it has been invoked
\* exactly once, whichever peer was closed in between.
AckExactlyOnce ==
  \A i \in AckIds :
    /\ AckCalls(i) <= 1
    /\ AckCalls(i) = 1 => i \notin ackTable
    /\ (i < ackNextId /\ i \notin ackTable) => AckCalls(i) = 1

ClosedSockets == {s \in SocketIds : s < nextSocketId /\ s \notin sockets}

NoEmptyRoomEntry ==
  /\ \A n \in Namespaces : \A r \in DOMAIN nsRooms[n] : nsRooms[n][r] # {}
  /\ \A r \in DOMAIN srvRooms : srvRooms[r] # {}

\* the last member of a room has just left it and its entry is gone
NoEmptyRoomWitness ==
  /\ last.op = "last-leave"
  /\ ~MapHas(nsRooms[last.ns], last.room)
  /\ \E s \in sockets : sockNamespace[s] = last.ns /\ sockRooms[s] = {}

\* C17: rooms of different namespaces are different rooms even under one id:
\* the members a namespace's index holds for R are sockets of that namespace,
\* and the player count reported for R to a socket of N is the number of
\* members of R in N
RoomsArePerNamespace ==
  /\ \A n \in Namespaces, r \in RoomIds :
       \A s \in MapGet(nsRooms[n], r) : sockNamespace[s] = n
  /\ last.op = "players-list" =>
       last.count = Cardinality(MapGet(nsRooms[last.ns], last.room))

\* C12: when a frame carrying ACK_REQUESTED reaches a handler that calls its
\* ack function once or more, exactly one ACK frame with the frame's id goes
\* back to the sender
AckFunctionOneShot ==
  (last.op = "dispatch-ack" /\ last.ran # <<>> /\ last.calls >= 1)
    => last.acks = 1

OutstandingIdsUnique ==
  \A r1, r2 \in idOutstanding : r1.id = r2.id => r1 = r2

\* C14: outstanding ack records never share an id, the counter having wrapped
\* or not, and an ACK frame never completes the callback of another emit than
\* the one it answers
AckIdNeverCollides ==
  /\ OutstandingIdsUnique
  /\ idLastAck.completed # 0 => idLastAck.completed = idLastAck.answered

\* C14 as amended: outstanding ack records never share an id, and an ACK frame
\* that arrives while the record of the emit it answers is outstanding
\* completes the callback of that emit
AckIdUniqueWhileOutstanding ==
  /\ OutstandingIdsUnique
  /\ idLastAck.outstanding => idLastAck.completed = idLastAck.answered

\* the counter has wrapped past a record that is still outstanding, and an ACK
\* completed the record of a later emit
AckIdWrapWitness ==
  /\ \E r1, r2 \in idOutstanding : r1.emit < r2.emit /\ r2.id < r1.id
  /\ idLastAck.outstanding
  /\ idLastAck.completed > 1

RateLimitedFrame(ev) ==
  [event |-> "__rate-limited__", about |-> ev, message |-> "rate-limited"]

\* frames of the socket admitted less than a window before now
AdmittedInWindow(reqs, now) ==
  Cardinality({i \in DOMAIN reqs : now - reqs[i] < RateWindow})

\* C19: with the limiter as the only middleware, a frame is dispatched to the
\* handler while fewer than max frames were admitted within the window before
\* it; a further frame reaches no handler and is answered with one
\* __rate-limited__ frame, the socket staying open
RateLimitedReply ==
  (mwLast.op = "frame" /\ mwChain = <<"limiter">>) =>
    IF AdmittedInWindow(mwLast.before, mwLast.now) < RateMaxRequests
    THEN mwLast.handler = 1 /\ mwLast.replies = <<>>
    ELSE /\ mwLast.handler = 0
         /\ mwLast.replies = <<RateLimitedFrame(mwLast.ev)>>
         /\ mwLast.open

\* how many times the client fired the event since the transport was lost
Fired(event) ==
  Cardinality({i \in DOMAIN rcEmitted : rcEmitted[i] = event})

\* every attempt allowed after the loss has been made and has failed
AllAttemptsFailed == rcFailed >= MaxReconnectAttempts

\* the client is not connected, is not connecting and has no attempt scheduled
RcClosed ==
  ~rcConnected /\ rcTimer = NoAttempt /\ rcConnecting = NoAttempt

\* C20: after a transport loss the client makes at most maxReconnectAttempts
\* attempts; when all have failed it has fired max_reconnect_reached exactly
\* once, is closed, and makes no further attempt
ReconnectGivesUp ==
  /\ \A l \in DOMAIN rcAttempts : rcAttempts[l] <= MaxReconnectAttempts
  /\ AllAttemptsFailed =>
        /\ Fired("max_reconnect_reached") = 1
        /\ RcClosed
        /\ rcAttempts[rcLosses] = MaxReconnectAttempts

\* C20 as amended: after a transport loss the client makes at most
\* maxReconnectAttempts attempts; when all have failed it has fired
\* max-reconnect-attempts-reached exactly once, is left not connected with no
\* attempt scheduled or in progress, and makes no further attempt
ReconnectGivesUpOnce ==
  /\ [](/\ \A l \in DOMAIN rcAttempts :
             rcAttempts[l] <= MaxReconnectAttempts
        /\ Fired("max-reconnect-attempts-reached") <= 1
        /\ Fired("max-reconnect-attempts-reached") = 1 <=> AllAttemptsFailed
        /\ AllAttemptsFailed =>
              /\ RcClosed
              /\ rcAttempts[rcLosses] = MaxReconnectAttempts)
  /\ [][AllAttemptsFailed => UNCHANGED rcVars]_vars

\* every attempt after the second loss failed and the client gave up
ReconnectGivesUpWitness ==
  /\ rcLosses = 2
  /\ AllAttemptsFailed
  /\ RcClosed
  /\ Fired("max-reconnect-attempts-reached") = 1

\* the growing delay reconnectDelay * 1.5^k of attempt k, in whole time units
GrownDelay(k) == (rcReconnectDelay * Pow(3, k)) \div Pow(2, k)

\* the waits before the attempts 0, 1, ... made since the transport was lost
\* are min(reconnectDelay * 1.5^k, cap), never decrease and never exceed the
\* cap
BackoffWaits ==
  \A i \in DOMAIN rcWaits :
    /\ rcWaits[i] = (IF GrownDelay(i - 1) < MaxDelay
                     THEN GrownDelay(i - 1) ELSE MaxDelay)
    /\ rcWaits[i] <= MaxDelay
    /\ i > 1 => rcWaits[i - 1] <= rcWaits[i]
    /\ i <= MaxReconnectAttempts

\* C21: the wait before attempt k is min(reconnectDelay * 1.5^k, cap), equals
\* reconnectDelay for k = 0, never decreases as k grows and never exceeds the
\* cap
BackoffIsCappedExponential ==
  /\ BackoffWaits
  /\ rcWaits # <<>> => rcWaits[1] = rcReconnectDelay

\* C21 as amended: the wait before attempt k is min(reconnectDelay * 1.5^k,
\* cap), equals the smaller of reconnectDelay and the cap for k = 0, never
\* decreases as k grows and never exceeds the cap
BackoffIsCappedExponentialFromMin ==
  /\ BackoffWaits
  /\ rcWaits # <<>> =>
        rcWaits[1] = (IF rcReconnectDelay < MaxDelay
                      THEN rcReconnectDelay ELSE MaxDelay)

\* the waits grew from reconnectDelay up to the cap
BackoffWitness ==
  /\ Len(rcWaits) = MaxReconnectAttempts
  /\ rcWaits[1] = rcReconnectDelay
  /\ rcWaits[1] < rcWaits[2]
  /\ rcWaits[Len(rcWaits)] = MaxDelay
  /\ GrownDelay(Len(rcWaits) - 1) > MaxDelay

SentMessages == {mqSent[i].message : i \in DOMAIN mqSent}

QueuedMessages == {mqQueue[i].message : i \in DOMAIN mqQueue}

\* C22: the frames reach the transport in the order of their emits, the ones
\* emitted while not connected before every one emitted after the reconnect,
\* and the queue is empty once the client is connected again
OfflineQueueFlushedInOrder ==
  /\ \A i, j \in DOMAIN mqSent :
        i < j => mqSent[i].message < mqSent[j].message
  /\ mqOpen => mqQueue = <<>>

\* C23: the queue never holds more than its maximum, and it holds the most
\* recent emits made since the transport was lost, in emission order
OfflineQueueBounded ==
  /\ Len(mqQueue) <= MaxQueueSize
  /\ LET n == Len(mqOffline)
         k == IF n < MaxQueueSize THEN n ELSE MaxQueueSize
     IN  [i \in 1..Len(mqQueue) |-> mqQueue[i].message]
           = SubSeq(mqOffline, n - k + 1, n)

\* more emits than the queue holds were made while not connected
OfflineQueueWitness ==
  /\ ~mqOpen
  /\ Len(mqOffline) > MaxQueueSize
  /\ Len(mqQueue) = MaxQueueSize

\* C24: no frame that stayed in the queue longer than the TTL is written to
\* the transport
OfflineQueueTtl ==
  \A i \in DOMAIN mqSent : mqSent[i].age <= QueueTtl

\* C25: the ack timer of an emit made while not connected neither runs nor
\* fires while the frame is in the queue, and it has been started once the
\* frame is written to the transport
QueuedAckTimerStartsAtSend ==
  /\ \A m \in QueuedMessages : m \notin mqTimers /\ m \notin mqTimedOut
  /\ \A m \in SentMessages \cap mqAcked :
        m \in mqTimers \/ m \in mqTimedOut

IdleCloseAfterRetries ==
  ctClosed =>
    /\ ctProbe - ctLastActivity >= ConnectionTimeout
    /\ ctNow - ctProbe >= ProbeTimeout
    /\ ctUnanswered >= 3

\* C28: the emits made inside one handler invocation are written to the
\* receiver in the order they were made
EmitsArriveInOrder ==
  \A i, j \in DOMAIN plArrived : i < j => plArrived[i] < plArrived[j]

ClientUrlBindsNamespace ==
  (last.op = "open" /\ urlConnect # <<>>) =>
    /\ \E i \in DOMAIN SplitQuery(Tail(urlConnect)) :
          SplitQuery(Tail(urlConnect))[i] = urlNamespace
    /\ NamespacePath(RequestUrl(urlConnect)) = urlNamespace
    /\ sockNamespace[last.from] = urlNamespace

PlayerJoinedReachesTheOther ==
  \A a \in nsSockets["/quiz"], b \in nsSockets["/quiz"], code \in RoomIds :
    (a # b /\ <<a, code>> \in pjEmitted /\ <<b, code>> \in pjEmitted)
      => (<<a, b, code>> \in pjReceived /\ <<b, a, code>> \in pjReceived)

\* C33: an error thrown while emitting to one member of a room does not stop
\* the broadcast: when emit is over every other member has received the frame
\* exactly once and the error has not reached the handler that called emit
FanOutSurvivesErrors ==
  /\ ~foRaised
  /\ \A s \in SocketIds : foReceived[s] <= 1
  /\ foDone =>
       /\ \A s \in foMembers \ foThrowing : foReceived[s] = 1
       /\ \A s \in SocketIds \ (foMembers \ foThrowing) : foReceived[s] = 0
       /\ foErrors = Cardinality(foThrowing)

\* a broadcast to three members ended, one emit threw, the two others received
FanOutWitness ==
  /\ foDone
  /\ Cardinality(foMembers) = 3
  /\ Cardinality(foThrowing) = 1
  /\ \A s \in foMembers \ foThrowing : foReceived[s] = 1

\* C35: the connections in existence, available plus in use, never exceed
\* maxPoolSize, and after a release the available list holds at most poolSize
PoolIsBounded ==
  /\ poolAvailable + poolInUse <= MaxPoolSize
  /\ poolLast = "release" => poolAvailable <= PoolSize

\* C36: after the user called client.disconnect() the client stays closed:
\* no reconnect timer, heartbeat timeout or heartbeat interval opens the
\* connection again or sends a frame
DisconnectIsFinal ==
  clUserClosed =>
    /\ clState = "closed"
    /\ clIntervals = 0
    /\ clTimeouts = 0

\* C39: a client has at most one heartbeat interval running, at most one
\* heartbeat timeout pending and at most one reconnect attempt pending
OneTimerOfEachKind ==
  /\ clIntervals <= 1
  /\ clTimeouts <= 1
  /\ PendingReconnects <= 1

\* C37: a socket that has not joined quiz room Q cannot cause a frame to be
\* delivered to the members of Q: its 'quiz-started' naming Q reaches nobody
NonMemberReachesNobody ==
  (last.op = "broadcast" /\ last.ev = "quiz-started"
     /\ last.from \notin last.snap)
    => last.recv = NoRecv

\* C34: no frame the quiz server sends carries a question's correctAnswer:
\* two runs that differ only in correctAnswer send the same frames up to the
\* first submitted answer, and 'new-question' holds nothing but the question
NoAnswerLeak ==
  /\ \A i \in DOMAIN quiz.frames :
       /\ "correctAnswer" \notin DOMAIN quiz.frames[i].body
       /\ quiz.frames[i].event = "new-question" =>
            DOMAIN quiz.frames[i].body = {"questionId", "timeLimit"}
  /\ quiz.submits = 0 => quiz.frames = quizTwin.frames

\* a question was broadcast to two players in two runs with different answers
NoAnswerLeakWitness ==
  /\ quiz.op = "start-quiz"
  /\ quiz.submits = 0
  /\ quiz.rooms[1].correctAnswer # quizTwin.rooms[1].correctAnswer
  /\ quiz.frames[1].event = "new-question"
  /\ Cardinality(quiz.frames[1].to) = 2

\* the sockets that registered the entries of quizRooms[k].players
PlayerSockets(q, k) ==
  {q.rooms[k].players[i].socketId : i \in DOMAIN q.rooms[k].players}

\* C38: in the corrected quiz server quizRooms[Q].players holds at most one
\* entry per socket and exactly the connected sockets that are members of room
\* Q, so the totalPlayers and remainingPlayers that are broadcast equal the
\* number of sockets in room Q
PlayersMatchRoom ==
  /\ \A k \in QuizCodes :
       /\ Len(quiz.rooms[k].players) = Cardinality(PlayerSockets(quiz, k))
       /\ PlayerSockets(quiz, k) = quiz.members[k] \cap quiz.open
  /\ (quiz.op = "player-joined") =>
       quiz.frames[1].body.totalPlayers = Cardinality(quiz.frames[1].to)
  /\ (quiz.op = "disconnected" /\ quiz.frames # <<>>) =>
       quiz.frames[1].body.remainingPlayers = Cardinality(quiz.frames[1].to)

\* the total score of the entries that socket s registered in room k
RECURSIVE ScoreOf(_, _)
ScoreOf(players, s) ==
  IF players = <<>> THEN 0
  ELSE (IF Head(players).socketId = s THEN Head(players).score ELSE 0)
         + ScoreOf(Tail(players), s)

\* C40: a submit-answer frame from socket S changes the score of no entry but
\* the one S registered, and of no room but the one of S's stored quizCode
SubmitScoresOwnEntryOnly ==
  [][ quiz'.submits = quiz.submits + 1 =>
        \A k \in QuizKeys, s \in QuizSockets :
          ScoreOf(quiz'.rooms[k].players, s) # ScoreOf(quiz.rooms[k].players, s)
            => (s = quiz'.from /\ k = quiz.data[quiz'.from].quizCode) ]_vars

====
